---------------------------- MODULE Spec2Model ----------------------------
(***************************************************************************)
(* Groningen AAD calculator: the interpolation engine of                   *)
(* js/results-calculator.js (class ResultsCalculator, the results page)    *)
(* and of js/form-utils.js (the calculator page: findLowerIndex,           *)
(* trilinearInterp, calculateAOVPrediction, checkAndCalculateRealTime),    *)
(* together with the asynchronous load of the lookup grid.                 *)
(*                                                                         *)
(* JavaScript numbers are modelled as exact rationals [n, d] with d > 0,   *)
(* extended with the IEEE specials: d = 0 and n = 0 is NaN (also the       *)
(* numeric reading of `undefined`), d = 0 and n = 1 / -1 is +/-Infinity.   *)
(* Rounding error of the double arithmetic is not modelled.                *)
(***************************************************************************)
EXTENDS Integers, Sequences, FiniteSets, TLC

-----------------------------------------------------------------------------
(* Bounds of the model *)

\* longest axis of a grid the data file may carry
MaxAxisLen == 3

-----------------------------------------------------------------------------
(* JavaScript number arithmetic *)

Abs(a) == IF a < 0 THEN -a ELSE a

Sign(a) == IF a < 0 THEN -1 ELSE IF a > 0 THEN 1 ELSE 0

RECURSIVE GCD(_, _)
GCD(a, b) == IF b = 0 THEN a ELSE GCD(b, a % b)

NaN == [n |-> 0, d |-> 0]

Inf(sgn) == [n |-> sgn, d |-> 0]

\* the rational n/d in lowest terms, d > 0
Rat(n, d) ==
  LET g == GCD(Abs(n), d)
  IN  [n |-> n \div g, d |-> d \div g]

Num(v) == [n |-> v, d |-> 1]

IsNaN(a) == a.d = 0 /\ a.n = 0

IsFinite(a) == a.d > 0

IsInf(a) == a.d = 0 /\ a.n # 0

\* a + b
Plus(a, b) ==
  IF IsNaN(a) \/ IsNaN(b) THEN NaN
  ELSE IF IsInf(a) /\ IsInf(b) THEN (IF a.n = b.n THEN a ELSE NaN)
  ELSE IF IsInf(a) THEN a
  ELSE IF IsInf(b) THEN b
  ELSE Rat(a.n * b.d + b.n * a.d, a.d * b.d)

Neg(a) == [n |-> -a.n, d |-> a.d]

\* a - b
Minus(a, b) == Plus(a, Neg(b))

\* a * b
Times(a, b) ==
  IF IsNaN(a) \/ IsNaN(b) THEN NaN
  ELSE IF IsInf(a) \/ IsInf(b)
       THEN (IF a.n = 0 \/ b.n = 0 THEN NaN ELSE Inf(Sign(a.n) * Sign(b.n)))
  ELSE Rat(a.n * b.n, a.d * b.d)

\* a / b
Over(a, b) ==
  IF IsNaN(a) \/ IsNaN(b) THEN NaN
  ELSE IF IsInf(a) THEN (IF IsInf(b) THEN NaN
                         ELSE Inf(a.n * (IF b.n < 0 THEN -1 ELSE 1)))
  ELSE IF IsInf(b) THEN Num(0)
  ELSE IF b.n = 0 THEN (IF a.n = 0 THEN NaN ELSE Inf(Sign(a.n)))
  ELSE Rat(a.n * b.d * Sign(b.n), a.d * Abs(b.n))

\* a <= b (false when either side is NaN)
Le(a, b) ==
  IF IsNaN(a) \/ IsNaN(b) THEN FALSE
  ELSE IF IsInf(a) THEN (a.n = -1 \/ a = b)
  ELSE IF IsInf(b) THEN b.n = 1
  ELSE a.n * b.d <= b.n * a.d

\* a < b (false when either side is NaN)
Lt(a, b) == Le(a, b) /\ a # b

Ge(a, b) == Le(b, a)

Gt(a, b) == Lt(b, a)

\* a !== 0
NotZero(a) == a # Num(0)

\* vec[i] with a 0-based index; an index outside the array reads undefined
At(vec, i) == IF i \in 0 .. (Len(vec) - 1) THEN Num(vec[i + 1]) ELSE NaN

\* Math.min on integers
Min(a, b) == IF a <= b THEN a ELSE b

-----------------------------------------------------------------------------
(* The interpolation engine *)

RECURSIVE BinarySearch_Strict(_, _, _, _)
\* faulty variant: the loop tests vec[mid] < q
BinarySearch_Strict(vec, q, left, right) ==
  IF left < right - 1
  THEN LET mid == (left + right) \div 2
       IN  IF Lt(At(vec, mid), q)
           THEN BinarySearch_Strict(vec, q, mid, right)
           ELSE BinarySearch_Strict(vec, q, left, mid)
  ELSE left

\* faulty variant: the loop is skipped and the first cell is taken
BinarySearch_FirstCell(vec, q, left, right) == left

RECURSIVE BinarySearch(_, _, _, _)
\* the while loop of findLowerIndex
BinarySearch(vec, q, left, right) ==
  IF left < right - 1
  THEN LET mid == (left + right) \div 2
       IN  IF Le(At(vec, mid), q)
           THEN BinarySearch(vec, q, mid, right)
           ELSE BinarySearch(vec, q, left, mid)
  ELSE left

\* faulty variant: the high clamp returns the last index
findLowerIndex_HighLast(vec, q) ==
  LET n == Len(vec)
  IN  IF Le(q, At(vec, 0)) THEN 0
      ELSE IF Ge(q, At(vec, n - 1)) THEN n - 1
      ELSE BinarySearch(vec, q, 0, n - 1)

\* findLowerIndex
findLowerIndex(vec, q) ==
  LET n == Len(vec)
  IN  IF Le(q, At(vec, 0)) THEN 0
      ELSE IF Ge(q, At(vec, n - 1)) THEN n - 2
      ELSE BinarySearch(vec, q, 0, n - 1)

\* faulty variant: row-major strides (the last index varies fastest)
getValueIndex_RowMajor(i, j, k, s, nX, nY, nZ) ==
  s + 2 * (k + nZ * (j + nY * i))

\* faulty variant: the height index is scaled by the length of the height axis
getValueIndex_HeightStride(i, j, k, s, nX, nY, nZ) ==
  i + j * nY + k * nX * nY + s * nX * nY * nZ

\* the flat index getValue reads for vertex (i, j, k, s)
getValueIndex(i, j, k, s, nX, nY, nZ) ==
  i + j * nX + k * nX * nY + s * nX * nY * nZ

\* getValue: flatValues[index]
getValue(flatValues, i, j, k, s, nX, nY, nZ) ==
  At(flatValues, getValueIndex(i, j, k, s, nX, nY, nZ))

\* faulty variant: the weight is clamped into [0, 1]
fraction_Clamped(q, v0, v1) ==
  IF NotZero(Minus(v1, v0))
  THEN LET t == Over(Minus(q, v0), Minus(v1, v0))
       IN  IF Lt(t, Num(0)) THEN Num(0)
           ELSE IF Gt(t, Num(1)) THEN Num(1)
           ELSE t
  ELSE Num(0)

\* faulty variant: the weight is measured from the upper sample
fraction_FromUpper(q, v0, v1) ==
  IF NotZero(Minus(v1, v0))
  THEN Over(Minus(v1, q), Minus(v1, v0))
  ELSE Num(0)

\* the interpolation weight along one axis
fraction(q, v0, v1) ==
  IF NotZero(Minus(v1, v0)) THEN Over(Minus(q, v0), Minus(v1, v0)) ELSE Num(0)

\* faulty variant: the two ends of the blend are exchanged
lerp_Swapped(c0, c1, t) == Plus(Times(c0, t), Times(c1, Minus(Num(1), t)))

\* c0 * (1 - t) + c1 * t
lerp(c0, c1, t) == Plus(Times(c0, Minus(Num(1), t)), Times(c1, t))

\* the body of trilinearInterpolation / trilinearInterp once the three lower
\* indices are found: the returned value together with the locals of the call
interpolateAt(x, y, z, flatValues, xq, yq, zq, i, j, k, s) ==
  LET nX == Len(x)
      nY == Len(y)
      nZ == Len(z)
      i1 == Min(i + 1, nX - 1)
      j1 == Min(j + 1, nY - 1)
      k1 == Min(k + 1, nZ - 1)
      xd == fraction(xq, At(x, i), At(x, i1))
      yd == fraction(yq, At(y, j), At(y, j1))
      zd == fraction(zq, At(z, k), At(z, k1))
      c000 == getValue(flatValues, i,  j,  k,  s, nX, nY, nZ)
      c100 == getValue(flatValues, i1, j,  k,  s, nX, nY, nZ)
      c010 == getValue(flatValues, i,  j1, k,  s, nX, nY, nZ)
      c110 == getValue(flatValues, i1, j1, k,  s, nX, nY, nZ)
      c001 == getValue(flatValues, i,  j,  k1, s, nX, nY, nZ)
      c101 == getValue(flatValues, i1, j,  k1, s, nX, nY, nZ)
      c011 == getValue(flatValues, i,  j1, k1, s, nX, nY, nZ)
      c111 == getValue(flatValues, i1, j1, k1, s, nX, nY, nZ)
      c00 == lerp(c000, c100, xd)
      c10 == lerp(c010, c110, xd)
      c01 == lerp(c001, c101, xd)
      c11 == lerp(c011, c111, xd)
      c0  == lerp(c00, c10, yd)
      c1  == lerp(c01, c11, yd)
  IN  [value |-> lerp(c0, c1, zd),
       i |-> i, j |-> j, k |-> k, s |-> s,
       i1 |-> i1, j1 |-> j1, k1 |-> k1,
       xd |-> xd, yd |-> yd, zd |-> zd,
       reads |-> { getValueIndex(v[1], v[2], v[3], s, nX, nY, nZ) :
                     v \in {i, i1} \X {j, j1} \X {k, k1} }]

\* trilinearInterpolation / trilinearInterp
trilinearInterpolation(x, y, z, flatValues, xq, yq, zq, sq) ==
  interpolateAt(x, y, z, flatValues, xq, yq, zq,
                findLowerIndex(x, xq), findLowerIndex(y, yq),
                findLowerIndex(z, zq), sq)

-----------------------------------------------------------------------------
(* Input transforms.  Math.log and Math.sqrt are modelled in fixed point,  *)
(* rounded down to a whole grid unit: both stay monotone and many-to-one.  *)

RECURSIVE LogFloor(_, _)
\* floor(ln(n/d)) for n/d >= 1, with e approximated by 19/7
LogFloor(n, d) ==
  IF n * 7 >= d * 19 THEN 1 + LogFloor((n * 7) \div 19, d) ELSE 0

\* Math.log
MathLog(a) ==
  IF IsNaN(a) \/ a.n < 0 THEN NaN
  ELSE IF IsInf(a) THEN a
  ELSE IF a.n = 0 THEN Inf(-1)
  ELSE IF a.n < a.d THEN Num(-1)
  ELSE Num(LogFloor(a.n * 1000, a.d * 1000))

RECURSIVE SqrtFloor(_, _, _)
\* the largest r' >= r with r' * r' <= n/d
SqrtFloor(n, d, r) ==
  IF (r + 1) * (r + 1) * d <= n THEN SqrtFloor(n, d, r + 1) ELSE r

\* Math.sqrt
MathSqrt(a) ==
  IF IsNaN(a) \/ a.n < 0 THEN NaN
  ELSE IF IsInf(a) THEN a
  ELSE Num(SqrtFloor(a.n, a.d, 0))

\* Number.prototype.toFixed with scale = 10^digits: the nearest multiple of
\* 1/scale, ties away from zero
toFixed(a, scale) ==
  IF ~IsFinite(a) THEN a
  ELSE Rat(Sign(a.n) * ((2 * Abs(a.n) * scale + a.d) \div (2 * a.d)), scale)

-----------------------------------------------------------------------------
(* The lookup data: /data/groningen_aad_lookup.json as the R converter     *)
(* writes it.                                                              *)

Null == [null |-> TRUE]

IsNull(v) == "null" \in DOMAIN v

\* an axis of len sample points starting at base, unevenly spaced
Axis(base, len) == [m \in 1 .. len |-> base + ((m - 1) * (m + 2)) \div 2]

\* grid$grid_values_ms$mean[i, j, k, s] (0-based here)
MeanAt(i, j, k, s) == 10 + 2 * i * i + 5 * j + 9 * k * k + i * j + 40 * s

\* grid$grid_values_ms$sd[i, j, k, s] (0-based here)
SdAt(i, j, k, s) == (i + 2 * j + 3 * k + s) % 4

\* as.vector of a 4-D R array of dim c(nX, nY, nZ, 2): the first index
\* varies fastest.  p is the 0-based position in the vector.
Unflatten(p, nX, nY, nZ) ==
  <<p % nX, (p \div nX) % nY, (p \div (nX * nY)) % nZ, p \div (nX * nY * nZ)>>

\* the data file for axes of the given lengths
LookupData(lx, ly, lz) ==
  [grid_axes |-> [log_weight |-> Axis(1, lx),
                  sqrt_height |-> Axis(6, ly),
                  log_age_plus_1 |-> Axis(1, lz)],
   predictions |->
     [mean_aad |-> [p \in 1 .. lx * ly * lz * 2 |->
                      LET v == Unflatten(p - 1, lx, ly, lz)
                      IN  MeanAt(v[1], v[2], v[3], v[4])],
      std_dev |-> [p \in 1 .. lx * ly * lz * 2 |->
                      LET v == Unflatten(p - 1, lx, ly, lz)
                      IN  SdAt(v[1], v[2], v[3], v[4])]]]

\* the data files the server may hold: one for every pair of lengths of the
\* weight and height axes, the length of the age axis varying with them
DataFiles ==
  { LookupData(l[1], l[2], 1 + ((l[1] + l[2]) % MaxAxisLen)) :
      l \in (1 .. MaxAxisLen) \X (1 .. MaxAxisLen) }

-----------------------------------------------------------------------------
(* Values a caller or the form may supply *)

\* results page: the arguments handed to calculateResults
Ages == { Num(0), Rat(3, 1000), Num(2), Num(30), Num(59) }

Weights ==
  { Num(0), Rat(134, 100), Num(3), Num(10), Num(25), Rat(35227, 100), Num(450) }

Heights == { Num(0), Num(36), Num(50), Num(64), Rat(23622, 100) }

Sexes == { "", "male", "female" }

MeasuredArgs == { Null, Num(20) }

\* calculator page: the values of the form fields; parseFloat of an empty
\* measuredAAD field is NaN
FormAges == { NaN, Num(2), Num(60) }

FormWeights == { Rat(134, 100), Num(10), Num(450) }

FormHeights == { Num(50), Num(300) }

MeasuredFields == { NaN, Num(20), Num(-5) }

Inputs(p) ==
  IF p = "results"
  THEN [age : Ages, weight : Weights, height : Heights, sex : Sexes,
        measured : MeasuredArgs]
  ELSE [age : FormAges, weight : FormWeights, height : FormHeights,
        sex : Sexes, measured : MeasuredFields]

-----------------------------------------------------------------------------
(* Pure parts of the two engines *)

\* JavaScript truthiness of a number-or-null value
Truthy(v) == ~IsNull(v) /\ ~IsNaN(v) /\ v # Num(0)

\* faulty variant: the planes of the two sexes are exchanged
sexValue_Swapped(sex) == IF sex = "male" THEN 1 ELSE 0

\* sex === "male" ? 0 : 1
sexValue(sex) == IF sex = "male" THEN 0 ELSE 1

\* faulty variant: the standard deviation is blended in the other sex plane
interpolateBoth_SdOtherPlane(data, age, weight, height, sex) ==
  LET logWeight  == MathLog(weight)
      sqrtHeight == MathSqrt(height)
      logAge     == MathLog(Plus(age, Num(1)))
      xGrid == data.grid_axes.log_weight
      yGrid == data.grid_axes.sqrt_height
      zGrid == data.grid_axes.log_age_plus_1
  IN  [mean |-> trilinearInterpolation(xGrid, yGrid, zGrid,
                  data.predictions.mean_aad,
                  logWeight, sqrtHeight, logAge, sexValue(sex)),
       sd   |-> trilinearInterpolation(xGrid, yGrid, zGrid,
                  data.predictions.std_dev,
                  logWeight, sqrtHeight, logAge, 1 - sexValue(sex)),
       xq |-> logWeight, yq |-> sqrtHeight, zq |-> logAge]

\* the two blends of calculatePrediction / calculateAOVPrediction
interpolateBoth(data, age, weight, height, sex) ==
  LET logWeight  == MathLog(weight)
      sqrtHeight == MathSqrt(height)
      logAge     == MathLog(Plus(age, Num(1)))
      xGrid == data.grid_axes.log_weight
      yGrid == data.grid_axes.sqrt_height
      zGrid == data.grid_axes.log_age_plus_1
  IN  [mean |-> trilinearInterpolation(xGrid, yGrid, zGrid,
                  data.predictions.mean_aad,
                  logWeight, sqrtHeight, logAge, sexValue(sex)),
       sd   |-> trilinearInterpolation(xGrid, yGrid, zGrid,
                  data.predictions.std_dev,
                  logWeight, sqrtHeight, logAge, sexValue(sex)),
       xq |-> logWeight, yq |-> sqrtHeight, zq |-> logAge]

\* the object calculatePrediction returns for the blends b
predictionOf(b) ==
  [kind |-> "returned", meanAAD |-> b.mean.value, stdDev |-> b.sd.value,
   blend |-> b]

\* faulty variant: the arguments are validated before the loaded flag is read
calculatePrediction_ValidateFirst(data, loaded, age, weight, height, sex) ==
  IF Le(age, Num(0)) \/ Le(weight, Num(0)) \/ Le(height, Num(0)) \/ sex = ""
  THEN [kind |-> "thrown", message |-> "Invalid input parameters"]
  ELSE IF ~loaded
  THEN [kind |-> "thrown", message |-> "Model not loaded"]
  ELSE predictionOf(interpolateBoth(data, age, weight, height, sex))

\* ResultsCalculator.calculatePrediction
calculatePrediction(data, loaded, age, weight, height, sex) ==
  IF ~loaded
  THEN [kind |-> "thrown", message |-> "Model not loaded"]
  ELSE IF Le(age, Num(0)) \/ Le(weight, Num(0)) \/ Le(height, Num(0)) \/ sex = ""
  THEN [kind |-> "thrown", message |-> "Invalid input parameters"]
  ELSE predictionOf(interpolateBoth(data, age, weight, height, sex))

\* faulty variant: the bounds lie one standard deviation from the mean
resultOf_OneSd(prediction, measuredAAD) ==
  IF prediction.kind = "thrown" THEN prediction
  ELSE [kind |-> "returned",
        meanAAD |-> prediction.meanAAD,
        stdDev |-> prediction.stdDev,
        lowerBound |-> Minus(prediction.meanAAD, prediction.stdDev),
        upperBound |-> Plus(prediction.meanAAD, prediction.stdDev),
        zScore |-> IF Truthy(measuredAAD) /\ Gt(measuredAAD, Num(0))
                   THEN Over(Minus(measuredAAD, prediction.meanAAD),
                             prediction.stdDev)
                   ELSE Null,
        blend |-> prediction.blend]

\* the body of calculateResults after its call of calculatePrediction
resultOf(prediction, measuredAAD) ==
  IF prediction.kind = "thrown" THEN prediction
  ELSE [kind |-> "returned",
        meanAAD |-> prediction.meanAAD,
        stdDev |-> prediction.stdDev,
        lowerBound |-> Minus(prediction.meanAAD,
                             Times(Num(2), prediction.stdDev)),
        upperBound |-> Plus(prediction.meanAAD,
                            Times(Num(2), prediction.stdDev)),
        zScore |-> IF Truthy(measuredAAD) /\ Gt(measuredAAD, Num(0))
                   THEN Over(Minus(measuredAAD, prediction.meanAAD),
                             prediction.stdDev)
                   ELSE Null,
        blend |-> prediction.blend]

\* ResultsCalculator.calculateResults
calculateResults(data, loaded, age, weight, height, sex, measuredAAD) ==
  resultOf(calculatePrediction(data, loaded, age, weight, height, sex),
           measuredAAD)

\* the object calculateAOVPrediction returns for the blends b
aovPredictionOf(b) ==
  [kind |-> "returned",
   meanAAD |-> b.mean.value,
   sdAAD |-> b.sd.value,
   lowerBound |-> Minus(b.mean.value, Times(Num(2), b.sd.value)),
   upperBound |-> Plus(b.mean.value, Times(Num(2), b.sd.value)),
   blend |-> b]

\* calculateAOVPrediction (calculator page)
calculateAOVPrediction(data, loaded, age, weight, height, sex) ==
  IF ~loaded
  THEN [kind |-> "thrown", message |-> "Model not loaded"]
  ELSE aovPredictionOf(interpolateBoth(data, age, weight, height, sex))

\* calculateZScore
calculateZScore(measuredValue, meanAAD, sdAAD) ==
  Over(Minus(measuredValue, meanAAD), sdAAD)

\* validateInputs: the list of error messages
validateInputs(age, weight, height, sex) ==
  (IF Lt(age, Num(0)) \/ Gt(age, Num(59))
   THEN <<"Age must be between 0 and 59 years">> ELSE <<>>)
  \o
  (IF Lt(weight, Rat(134, 100)) \/ Gt(weight, Rat(35227, 100))
   THEN <<"Weight must be between 1.34 and 352.27 kg">> ELSE <<>>)
  \o
  (IF Lt(height, Rat(3048, 100)) \/ Gt(height, Rat(23622, 100))
   THEN <<"Height must be between 30.48 and 236.22 cm">> ELSE <<>>)
  \o
  (IF sex # "male" /\ sex # "female"
   THEN <<"Please select a sex">> ELSE <<>>)

-----------------------------------------------------------------------------
(* State *)

VARIABLES
  page,              \* which page is open: "calculator" or "results"
  input,             \* results page: the arguments of the page's call;
                     \* calculator page: the values held by the form fields
  lookupData,        \* lookupData / this.lookupData: Null or the parsed grid
  isLoaded,          \* isModelLoaded / this.isLoaded
  loadPc,            \* where the load call stands
  status,            \* calculator page: class of the status element
  errorMessage,      \* calculator page: the error box
  ariaHidden,        \* calculator page: aria-hidden of the results section
  currentPrediction, \* calculator page: window.currentPrediction
  zScoreValue,       \* calculator page: text of the Z-score field
  shown,             \* calculator page: texts of mean, SD and normal range
  outcome,           \* how the last call of an engine entry point ended
  last,              \* the arguments and blend locals of that call
  search,            \* a findLowerIndex call: its arguments, locals and position
  calls,             \* the loadModel calls in flight: where each one stands
  swVersion,         \* which release of the service worker is registered
  isDevelopment,     \* service worker: the development-mode flag
  installState,      \* service worker: how its install event ended
  caches,            \* CacheStorage: per cache name, the URLs stored
  reply,             \* service worker: the last fetch event and its answer
  controller,        \* which form controller drives the form
  elements,          \* the form's DOM elements as the controllers read them
  entered,           \* the height and weight the user typed last
  calculateTimeout,  \* this.calculateTimeout: Null or a timer id
  timers,            \* the pending setTimeout timers of the controller
  clock              \* time since the last form event, and what ran since

vars == <<page, input, lookupData, isLoaded, loadPc, status, errorMessage,
          ariaHidden, currentPrediction, zScoreValue, shown, outcome, last,
          search, calls, swVersion, isDevelopment, installState, caches, reply,
          controller, elements, entered, calculateTimeout, timers, clock>>

dom == <<status, errorMessage, ariaHidden, currentPrediction, zScoreValue, shown>>

\* the service worker's state
worker == <<swVersion, isDevelopment, installState, caches, reply>>

\* the form controller's state
form == <<controller, elements, entered, calculateTimeout, timers, clock>>

\* what the steps of the two pages' engines leave alone
others == <<search, calls, worker, form>>

\* the "--" placeholder text
Dash == [text |-> "--"]

NoError == [display |-> "none", text |-> <<>>]

NoCall == [op |-> "none", blended |-> FALSE]

\* no findLowerIndex call is being traced
NoSearch == [pc |-> "none"]

\* no service worker is registered
NoWorker ==
  /\ swVersion = "none"
  /\ isDevelopment = FALSE
  /\ installState = "none"
  /\ caches = <<>>
  /\ reply = [kind |-> "none"]

\* no form controller is constructed
NoForm ==
  /\ controller = "none"
  /\ elements = <<>>
  /\ entered = <<>>
  /\ calculateTimeout = 0
  /\ timers = {}
  /\ clock = [quiet |-> 0]

Init ==
  /\ page \in {"calculator", "results"}
  /\ input \in Inputs(page)
  /\ lookupData = Null
  /\ isLoaded = FALSE
  /\ loadPc = "idle"
  /\ status = ""
  /\ errorMessage = NoError
  /\ ariaHidden = TRUE
  /\ currentPrediction = Null
  /\ zScoreValue = Dash
  /\ shown = [mean |-> Dash, sd |-> Dash, lower |-> Dash, upper |-> Dash]
  /\ outcome = [kind |-> "none"]
  /\ last = NoCall
  /\ search = NoSearch
  /\ calls = <<>>
  /\ NoWorker
  /\ NoForm

-----------------------------------------------------------------------------
(* Loading the grid: loadModel (results page), loadLookupData (calculator) *)

\* the call up to its first await: fetch() is issued
LoadStart ==
  /\ \/ loadPc = "idle"
     \/ page = "results" /\ loadPc = "failed"
  /\ loadPc' = "fetching"
  /\ status' = IF page = "calculator" THEN "loading" ELSE status
  /\ UNCHANGED <<page, input, lookupData, isLoaded, errorMessage, ariaHidden,
                 currentPrediction, zScoreValue, shown, outcome, last>>
  /\ UNCHANGED others

\* faulty variant: the catch block reports nothing
LoadFailed_Silent ==
  /\ loadPc' = "failed"
  /\ UNCHANGED <<page, input, lookupData, isLoaded, dom, outcome, last>>
  /\ UNCHANGED others

\* the catch block of the load call
LoadFailed ==
  /\ loadPc' = "failed"
  /\ IF page = "calculator"
     THEN /\ status' = "error"
          /\ errorMessage' = [display |-> "block", text |->
               <<"Failed to load the calculation model. Please refresh the page.">>]
          /\ ariaHidden' = TRUE
     ELSE UNCHANGED <<status, errorMessage, ariaHidden>>
  /\ UNCHANGED <<page, input, lookupData, isLoaded, currentPrediction,
                 zScoreValue, shown, outcome, last>>
  /\ UNCHANGED others

\* fetch resolves with response.ok: the call goes on to response.json()
FetchOk ==
  /\ loadPc = "fetching"
  /\ loadPc' = "parsing"
  /\ UNCHANGED <<page, input, lookupData, isLoaded, dom, outcome, last>>
  /\ UNCHANGED others

\* fetch rejects, or resolves with a status that is not ok
FetchFail ==
  /\ loadPc = "fetching"
  /\ LoadFailed

\* response.json() resolves: the grid is stored and the flag set
JsonOk ==
  /\ loadPc = "parsing"
  /\ \E data \in DataFiles : lookupData' = data
  /\ isLoaded' = TRUE
  /\ loadPc' = "done"
  /\ status' = IF page = "calculator" THEN "ready" ELSE status
  /\ UNCHANGED <<page, input, errorMessage, ariaHidden, currentPrediction,
                 zScoreValue, shown, outcome, last>>
  /\ UNCHANGED others

\* response.json() rejects
JsonFail ==
  /\ loadPc = "parsing"
  /\ LoadFailed

-----------------------------------------------------------------------------
(* Results page: a call of ResultsCalculator.calculateResults *)

\* what `last` keeps of a call: its arguments and, when the blends ran,
\* their locals
Call(op, in, b) ==
  [op |-> op, age |-> in.age, weight |-> in.weight, height |-> in.height,
   sex |-> in.sex, measured |-> in.measured,
   blended |-> ~IsNull(b), blend |-> b]

\* the caller receives r, the value returned or the error thrown
Receive(r) ==
  IF r.kind = "thrown"
  THEN /\ outcome' = r
       /\ last' = Call("calculateResults", input, Null)
  ELSE /\ outcome' = [kind |-> "returned", meanAAD |-> r.meanAAD,
                      stdDev |-> r.stdDev,
                      lowerBound |-> r.lowerBound,
                      upperBound |-> r.upperBound,
                      zScore |-> r.zScore]
       /\ last' = Call("calculateResults", input, r.blend)

CalculateResults ==
  /\ page = "results"
  /\ Receive(calculateResults(lookupData, isLoaded, input.age, input.weight,
                              input.height, input.sex, input.measured))
  /\ UNCHANGED <<page, input, lookupData, isLoaded, loadPc, dom>>
  /\ UNCHANGED others

-----------------------------------------------------------------------------
(* Calculator page handlers *)

\* hideError
hideError(err) == [err EXCEPT !.display = "none"]

\* handleZScoreCalculation, given the parsed measured field and the stored
\* prediction: the new text of the Z-score field
handleZScoreCalculation(measured, prediction) ==
  IF ~Truthy(measured) \/ IsNull(prediction) THEN Dash
  ELSE toFixed(calculateZScore(measured, prediction.meanAAD, prediction.sdAAD),
               100)

\* the try block of checkAndCalculateRealTime after its call of
\* calculateAOVPrediction, which returned r; in holds the values read from
\* the form
displayFor(op, r, in) ==
  /\ shown' = [mean |-> toFixed(r.meanAAD, 100),
               sd |-> toFixed(r.sdAAD, 100),
               lower |-> toFixed(r.lowerBound, 10),
               upper |-> toFixed(r.upperBound, 10)]
  /\ ariaHidden' = FALSE
  /\ currentPrediction' = [meanAAD |-> r.meanAAD, sdAAD |-> r.sdAAD,
                           lowerBound |-> r.lowerBound,
                           upperBound |-> r.upperBound]
  /\ zScoreValue' = handleZScoreCalculation(in.measured, currentPrediction')
  /\ last' = Call(op, in, r.blend)

\* checkAndCalculateRealTime, entered with the error box in state err0 and
\* reading the values in from the form
checkAndCalculateRealTimeWith(op, err0, in) ==
  LET hide == /\ ariaHidden' = TRUE
              /\ last' = Call(op, in, Null)
              /\ UNCHANGED <<currentPrediction, zScoreValue, shown>>
  IN  /\ outcome' = [kind |-> "returned"]
      /\ IF ~isLoaded
         THEN /\ errorMessage' = err0
              /\ last' = Call(op, in, Null)
              /\ UNCHANGED <<ariaHidden, currentPrediction, zScoreValue, shown>>
         ELSE /\ errorMessage' = hideError(err0)
              /\ IF \/ in.sex = ""
                    \/ IsNaN(in.age)
                    \/ IsNaN(in.weight)
                    \/ IsNaN(in.height)
                 THEN hide
                 ELSE IF validateInputs(in.age, in.weight, in.height,
                                        in.sex) # <<>>
                 THEN hide
                 ELSE displayFor(op, calculateAOVPrediction(lookupData,
                                   isLoaded, in.age, in.weight, in.height,
                                   in.sex), in)

\* the same, reading the fields of the calculator page
checkAndCalculateRealTime(op, err0) ==
  checkAndCalculateRealTimeWith(op, err0, input)

\* the debounce timer of a form input fires: checkAndCalculateRealTime runs
CheckAndCalculateRealTime ==
  /\ page = "calculator"
  /\ checkAndCalculateRealTime("checkAndCalculateRealTime", errorMessage)
  /\ UNCHANGED <<page, input, lookupData, isLoaded, loadPc, status>>
  /\ UNCHANGED others

\* form submission: handleCalculation
HandleCalculation ==
  /\ page = "calculator"
  /\ LET errors == validateInputs(input.age, input.weight, input.height,
                                  input.sex)
     IN  IF errors # <<>>
         THEN /\ errorMessage' = [display |-> "block", text |-> errors]
              /\ ariaHidden' = TRUE
              /\ outcome' = [kind |-> "returned"]
              /\ last' = Call("handleCalculation", input, Null)
              /\ UNCHANGED <<currentPrediction, zScoreValue, shown>>
         ELSE checkAndCalculateRealTime("handleCalculation",
                                        hideError(errorMessage))
  /\ UNCHANGED <<page, input, lookupData, isLoaded, loadPc, status>>
  /\ UNCHANGED others

\* the user changes the sex select: the field changes and the input
\* listener hides the error box
SexInput ==
  /\ page = "calculator"
  /\ \E sex \in Sexes : input' = [input EXCEPT !.sex = sex]
  /\ errorMessage' = hideError(errorMessage)
  /\ UNCHANGED <<page, lookupData, isLoaded, loadPc, status, ariaHidden,
                 currentPrediction, zScoreValue, shown, outcome, last>>
  /\ UNCHANGED others

\* the user edits the measured AAD field: the field changes and its input
\* listeners run
MeasuredInput ==
  /\ page = "calculator"
  /\ \E measured \in MeasuredFields :
       /\ input' = [input EXCEPT !.measured = measured]
       /\ zScoreValue' = handleZScoreCalculation(measured, currentPrediction)
  /\ errorMessage' = hideError(errorMessage)
  /\ UNCHANGED <<page, lookupData, isLoaded, loadPc, status, ariaHidden,
                 currentPrediction, shown, outcome, last>>
  /\ UNCHANGED others

-----------------------------------------------------------------------------

Next ==
  \/ LoadStart
  \/ FetchOk
  \/ FetchFail
  \/ JsonOk
  \/ JsonFail
  \/ CalculateResults
  \/ CheckAndCalculateRealTime
  \/ HandleCalculation
  \/ SexInput
  \/ MeasuredInput

Spec == Init /\ [][Next]_vars

-----------------------------------------------------------------------------
(* The R reference: trilinear_interp of the converter script, with R's     *)
(* 1-based indices.                                                        *)

\* vec[i] in R: NA outside 1 .. length(vec)
R_At(vec, i) == IF i \in 1 .. Len(vec) THEN Num(vec[i]) ELSE NaN

\* findInterval(q, vec) for a sorted vec: how many samples are <= q
R_findInterval(vec, q) ==
  Cardinality({ m \in 1 .. Len(vec) : Le(Num(vec[m]), q) })

\* find_lower_index
R_find_lower_index(vec, q) ==
  LET n == Len(vec)
  IN  IF Le(q, R_At(vec, 1)) THEN 1
      ELSE IF Ge(q, R_At(vec, n)) THEN n - 1
      ELSE R_findInterval(vec, q)

\* the position in flatvalues of values[ii, jj, kk, mm] for
\* values <- array(flatvalues, dim = c(nX, nY, nZ, 2)): column-major
R_position(ii, jj, kk, mm, nX, nY, nZ) ==
  ii + (jj - 1) * nX + (kk - 1) * nX * nY + (mm - 1) * nX * nY * nZ

\* a * (1 - d) + b * d
R_blend(a, b, d) == Plus(Times(a, Minus(Num(1), d)), Times(b, d))

\* the body of trilinear_interp for one query, the indices found
R_interp_at(x, y, z, flatvalues, xq, yq, zq, ii, jj, kk, mm) ==
  LET nX == Len(x)
      nY == Len(y)
      nZ == Len(z)
      xd == Over(Minus(xq, R_At(x, ii)), Minus(R_At(x, ii + 1), R_At(x, ii)))
      yd == Over(Minus(yq, R_At(y, jj)), Minus(R_At(y, jj + 1), R_At(y, jj)))
      zd == Over(Minus(zq, R_At(z, kk)), Minus(R_At(z, kk + 1), R_At(z, kk)))
      values(a, b, c) ==
        R_At(flatvalues, R_position(a, b, c, mm, nX, nY, nZ))
      c00 == R_blend(values(ii, jj, kk), values(ii + 1, jj, kk), xd)
      c10 == R_blend(values(ii, jj + 1, kk), values(ii + 1, jj + 1, kk), xd)
      c01 == R_blend(values(ii, jj, kk + 1), values(ii + 1, jj, kk + 1), xd)
      c11 == R_blend(values(ii, jj + 1, kk + 1),
                     values(ii + 1, jj + 1, kk + 1), xd)
      c0 == R_blend(c00, c10, yd)
      c1 == R_blend(c01, c11, yd)
  IN  [value |-> R_blend(c0, c1, zd),
       i |-> ii, j |-> jj, k |-> kk, m |-> mm,
       xd |-> xd, yd |-> yd, zd |-> zd,
       reads |-> { R_position(v[1], v[2], v[3], mm, nX, nY, nZ) :
                     v \in {ii, ii + 1} \X {jj, jj + 1} \X {kk, kk + 1} }]

\* trilinear_interp for one query
R_trilinear_interp(x, y, z, flatvalues, xq, yq, zq, sq) ==
  R_interp_at(x, y, z, flatvalues, xq, yq, zq,
              R_find_lower_index(x, xq), R_find_lower_index(y, yq),
              R_find_lower_index(z, zq), sq + 1)

-----------------------------------------------------------------------------
(* Any caller and any file: loadModel may be called again after it has     *)
(* succeeded, and the server may hold a file that parses but is not a      *)
(* well-formed grid.                                                       *)

\* the 2 x 2 x 2 grid with the last element of both value arrays missing
ShortValues ==
  LET good == LookupData(2, 2, 2)
  IN  [good EXCEPT
         !.predictions.mean_aad = SubSeq(@, 1, Len(@) - 1),
         !.predictions.std_dev = SubSeq(@, 1, Len(@) - 1)]

\* the 2 x 2 x 2 grid with a weight axis that repeats a sample
FlatAxis ==
  LET good == LookupData(2, 2, 2)
  IN  [good EXCEPT !.grid_axes.log_weight = <<@[1], @[1]>>]

MalformedFiles == { ShortValues, FlatAxis }

\* loadModel is called on a calculator that is already loaded
LoadAgain ==
  /\ page = "results"
  /\ loadPc = "done"
  /\ loadPc' = "fetching"
  /\ UNCHANGED <<page, input, lookupData, isLoaded, dom, outcome, last>>
  /\ UNCHANGED others

\* response.json() resolves with a malformed grid: it is stored and the flag
\* set like any other
JsonMalformed ==
  /\ loadPc = "parsing"
  /\ \E data \in MalformedFiles : lookupData' = data
  /\ isLoaded' = TRUE
  /\ loadPc' = "done"
  /\ status' = IF page = "calculator" THEN "ready" ELSE status
  /\ UNCHANGED <<page, input, errorMessage, ariaHidden, currentPrediction,
                 zScoreValue, shown, outcome, last>>
  /\ UNCHANGED others

NextOpen ==
  \/ Next
  \/ LoadAgain
  \/ JsonMalformed

SpecOpen == Init /\ [][NextOpen]_vars

-----------------------------------------------------------------------------
(* Vocabulary of the properties *)

XAxis == lookupData.grid_axes.log_weight

YAxis == lookupData.grid_axes.sqrt_height

ZAxis == lookupData.grid_axes.log_age_plus_1

MeanValues == lookupData.predictions.mean_aad

StdDevValues == lookupData.predictions.std_dev

StrictlyIncreasing(a) == \A m \in 1 .. (Len(a) - 1) : a[m] < a[m + 1]

\* a strictly increasing axis with at least two samples
Regular(a) == Len(a) >= 2 /\ StrictlyIncreasing(a)

RegularGrid == Regular(XAxis) /\ Regular(YAxis) /\ Regular(ZAxis)

\* the blends of the last call ran (the grid was loaded at that time, and
\* it is the grid still loaded)
Blended == last.blended

\* the prediction the last call handed back: meanAAD and stdDev / sdAAD
ReturnedMean ==
  IF page = "results" THEN outcome.meanAAD ELSE currentPrediction.meanAAD

ReturnedSd ==
  IF page = "results" THEN outcome.stdDev ELSE currentPrediction.sdAAD

\* the sex plane of the last call as the documentation fixes it
SexPlane == IF last.sex = "male" THEN 0 ELSE 1

\* per continuous axis: the samples, the transformed query, and the lower
\* index, upper index and fraction the mean blend used
AxisUse ==
  << [axis |-> XAxis, q |-> last.blend.xq, lo |-> last.blend.mean.i,
      hi |-> last.blend.mean.i1, d |-> last.blend.mean.xd],
     [axis |-> YAxis, q |-> last.blend.yq, lo |-> last.blend.mean.j,
      hi |-> last.blend.mean.j1, d |-> last.blend.mean.yd],
     [axis |-> ZAxis, q |-> last.blend.zq, lo |-> last.blend.mean.k,
      hi |-> last.blend.mean.k1, d |-> last.blend.mean.zd] >>

First(a) == Num(a[1])

Final(a) == Num(a[Len(a)])

\* the transformed query of the last call with coordinate number a replaced
\* by v
Along(a, v) ==
  [xq |-> IF a = 1 THEN v ELSE last.blend.xq,
   yq |-> IF a = 2 THEN v ELSE last.blend.yq,
   zq |-> IF a = 3 THEN v ELSE last.blend.zq]

\* what the blends of the last call return at the transformed query c
MeanValueAt(c) ==
  trilinearInterpolation(XAxis, YAxis, ZAxis, MeanValues,
                         c.xq, c.yq, c.zq, last.blend.mean.s).value

SdValueAt(c) ==
  trilinearInterpolation(XAxis, YAxis, ZAxis, StdDevValues,
                         c.xq, c.yq, c.zq, last.blend.sd.s).value

\* the last call returned what a query moved to v on axis a returns
SameAsAt(a, v) ==
  /\ ReturnedMean = MeanValueAt(Along(a, v))
  /\ ReturnedSd = SdValueAt(Along(a, v))

\* the straight line through v0 (at fraction 0) and v1 (at fraction 1)
LineThrough(v0, v1, d) == Plus(v0, Times(d, Minus(v1, v0)))

\* the last call returned the point at fraction d of the line through the
\* results at the samples lo and hi (0-based) of axis a
OnLineThrough(a, axis, lo, hi, d) ==
  /\ ReturnedMean = LineThrough(MeanValueAt(Along(a, At(axis, lo))),
                                MeanValueAt(Along(a, At(axis, hi))), d)
  /\ ReturnedSd = LineThrough(SdValueAt(Along(a, At(axis, lo))),
                              SdValueAt(Along(a, At(axis, hi))), d)

InUnitInterval(d) == Le(Num(0), d) /\ Le(d, Num(1))

-----------------------------------------------------------------------------
(* C1: exactness at grid vertices.  On a grid whose axes are strictly      *)
(* increasing with at least two samples, a query whose transformed         *)
(* coordinates are the samples number i, j, k (0-based, the last sample    *)
(* included) with sex plane s returns exactly the values stored at flat    *)
(* index i + j*nW + k*nW*nH + s*nW*nH*nA of mean_aad and std_dev.          *)

C1_ExactAtVertices ==
  (Blended /\ RegularGrid) =>
    LET nW == Len(XAxis)
        nH == Len(YAxis)
        nA == Len(ZAxis)
    IN  \A i \in 0 .. (nW - 1), j \in 0 .. (nH - 1), k \in 0 .. (nA - 1) :
          ( /\ last.blend.xq = Num(XAxis[i + 1])
            /\ last.blend.yq = Num(YAxis[j + 1])
            /\ last.blend.zq = Num(ZAxis[k + 1]) )
          => LET flat == i + j * nW + k * nW * nH + SexPlane * nW * nH * nA
             IN  /\ ReturnedMean = Num(MeanValues[flat + 1])
                 /\ ReturnedSd = Num(StdDevValues[flat + 1])

\* a query at the last sample of all three axes has been answered
C1_Witness ==
  /\ Blended
  /\ RegularGrid
  /\ last.blend.xq = Final(XAxis)
  /\ last.blend.yq = Final(YAxis)
  /\ last.blend.zq = Final(ZAxis)
  /\ last.sex = "female"

-----------------------------------------------------------------------------
(* C2: axis index search, interior case.  For a strictly increasing axis   *)
(* of at least two samples and a query strictly between its first and its  *)
(* last sample, the lower index found is the index lo with                 *)
(* axis[lo] <= q < axis[lo+1] (0-based), which is the largest index whose  *)
(* sample does not exceed q.                                               *)

C2_InteriorIndex ==
  Blended =>
    \A a \in 1 .. 3 :
      LET u == AxisUse[a]
      IN  (Regular(u.axis) /\ Lt(First(u.axis), u.q) /\ Lt(u.q, Final(u.axis)))
          => /\ u.lo \in 0 .. (Len(u.axis) - 2)
             /\ Le(Num(u.axis[u.lo + 1]), u.q)
             /\ Lt(u.q, Num(u.axis[u.lo + 2]))
             /\ \A m \in 0 .. (Len(u.axis) - 1) :
                  Le(Num(u.axis[m + 1]), u.q) => m <= u.lo

\* an interior query on a three-sample axis that falls in the second cell,
\* and one that sits exactly on the middle sample
C2_Witness ==
  /\ Blended
  /\ Len(XAxis) = 3
  /\ Len(ZAxis) = 3
  /\ Lt(Num(XAxis[2]), last.blend.xq)
  /\ Lt(last.blend.xq, Final(XAxis))
  /\ last.blend.mean.i = 1
  /\ last.blend.zq = Num(ZAxis[2])
  /\ last.blend.mean.k = 1

-----------------------------------------------------------------------------
(* C3 as stated: for every axis of length n, a query q <= axis[0] yields   *)
(* lower index 0 and a query q >= axis[n-1] yields lower index n-2.        *)

C3_AsStated ==
  Blended =>
    \A a \in 1 .. 3 :
      LET u == AxisUse[a]
      IN  /\ Le(u.q, First(u.axis)) => u.lo = 0
          /\ Ge(u.q, Final(u.axis)) => u.lo = Len(u.axis) - 2

(* C3: axis index search, clamping.  The low test comes first: a query     *)
(* q <= axis[0] yields lower index 0; a query q >= axis[n-1] that is not   *)
(* <= axis[0] yields lower index n-2; and on an axis of at least two       *)
(* samples a query q >= axis[n-1] yields lower index n-2 >= 0 with the     *)
(* upper neighbour n-1.                                                    *)

C3_Clamping ==
  Blended =>
    \A a \in 1 .. 3 :
      LET u == AxisUse[a]
          n == Len(u.axis)
      IN  /\ Le(u.q, First(u.axis)) => u.lo = 0
          /\ (Ge(u.q, Final(u.axis)) /\ ~Le(u.q, First(u.axis)))
               => u.lo = n - 2
          /\ (n >= 2 /\ Ge(u.q, Final(u.axis)))
               => /\ u.lo = n - 2
                  /\ u.lo >= 0
                  /\ u.hi = n - 1

\* one query above the last of three height samples and below the first
\* age sample, and it sits on the only sample of a one-point weight axis
C3_Witness ==
  /\ Blended
  /\ Len(YAxis) = 3
  /\ Gt(last.blend.yq, Final(YAxis))
  /\ last.blend.mean.j = 1
  /\ last.blend.mean.j1 = 2
  /\ Lt(last.blend.zq, First(ZAxis))
  /\ last.blend.mean.k = 0
  /\ Len(XAxis) = 1
  /\ last.blend.xq = First(XAxis)
  /\ last.blend.mean.i = 0

-----------------------------------------------------------------------------
(* C4 as stated: a query below the first sample of an axis returns the     *)
(* result of the query at the first sample, and a query above the last     *)
(* sample the result of the query at the last sample (read here on grids   *)
(* whose axes all have at least two strictly increasing samples).          *)

C4_AsStated ==
  (Blended /\ RegularGrid) =>
    \A a \in 1 .. 3 :
      LET u == AxisUse[a]
      IN  /\ Lt(u.q, First(u.axis)) => SameAsAt(a, First(u.axis))
          /\ Gt(u.q, Final(u.axis)) => SameAsAt(a, Final(u.axis))

(* C4: outside the sampled range the edge cell is extended.  On an axis of *)
(* at least two strictly increasing samples, a query below the first       *)
(* sample uses the cell (0, 1) with a negative fraction d, a query above   *)
(* the last sample uses the cell (n-2, n-1) with a fraction d > 1, and the *)
(* result is R(lo) + d * (R(hi) - R(lo)), R(m) being the result of the     *)
(* query moved to sample m of that axis (other coordinates equal).         *)

C4_EdgeCellExtended ==
  Blended =>
    \A a \in 1 .. 3 :
      LET u == AxisUse[a]
          n == Len(u.axis)
      IN  Regular(u.axis) =>
            /\ Lt(u.q, First(u.axis))
                 => /\ u.lo = 0 /\ u.hi = 1
                    /\ Lt(u.d, Num(0))
                    /\ OnLineThrough(a, u.axis, 0, 1, u.d)
            /\ Gt(u.q, Final(u.axis))
                 => /\ u.lo = n - 2 /\ u.hi = n - 1
                    /\ Gt(u.d, Num(1))
                    /\ OnLineThrough(a, u.axis, n - 2, n - 1, u.d)

\* a query below the weight range and above the height range whose result
\* differs from the result at the first weight sample
C4_Witness ==
  /\ Blended
  /\ RegularGrid
  /\ Lt(last.blend.xq, First(XAxis))
  /\ Gt(last.blend.yq, Final(YAxis))
  /\ ReturnedMean # MeanValueAt(Along(1, First(XAxis)))
  /\ IsFinite(ReturnedMean)

-----------------------------------------------------------------------------
(* C5 as stated: the fractions xd, yd, zd of every blend lie in [0, 1]     *)
(* (read here on grids whose axes all have at least two strictly           *)
(* increasing samples).                                                    *)

-----------------------------------------------------------------------------
(* C6: interpolation is total and in bounds.  For every loaded grid with   *)
(* non-empty axes, a one-sample axis included, and every query that passes *)
(* validateInputs, the lower index and its neighbour lie in [0, n-1] on    *)
(* each axis, the 8 vertex reads of both blends address elements of the    *)
(* value arrays, and meanAAD and stdDev are finite numbers.                *)

C6_TotalAndInBounds ==
  ( /\ Blended
    /\ validateInputs(last.age, last.weight, last.height, last.sex) = <<>> )
  => /\ \A a \in 1 .. 3 :
          LET u == AxisUse[a]
          IN  /\ u.lo \in 0 .. (Len(u.axis) - 1)
              /\ u.hi \in 0 .. (Len(u.axis) - 1)
     /\ last.blend.mean.reads \subseteq 0 .. (Len(MeanValues) - 1)
     /\ last.blend.sd.reads \subseteq 0 .. (Len(StdDevValues) - 1)
     /\ IsFinite(ReturnedMean)
     /\ IsFinite(ReturnedSd)

-----------------------------------------------------------------------------
(* C7: flat addressing.  Vertex (i, j, k, s) is fetched at flat index      *)
(* i + j*nW + k*nW*nH + s*nW*nH*nA; over the indices within the axis       *)
(* bounds this mapping is one-to-one onto [0, nW*nH*nA*2 - 1], the value   *)
(* arrays have that many elements, the element fetched is the entry        *)
(* [i, j, k, s] of the 4-D array the data file was flattened from, and the *)
(* vertices both blends of a call read are fetched at these indices.       *)

C7_FlatAddressing ==
  ~IsNull(lookupData) =>
    LET nW == Len(XAxis)
        nH == Len(YAxis)
        nA == Len(ZAxis)
        Vertices == (0 .. (nW - 1)) \X (0 .. (nH - 1)) \X (0 .. (nA - 1))
                      \X (0 .. 1)
        Flat(v) == v[1] + v[2] * nW + v[3] * nW * nH + v[4] * nW * nH * nA
        Fetched == { getValueIndex(v[1], v[2], v[3], v[4], nW, nH, nA) :
                       v \in Vertices }
        Corners(b) == { Flat(<<c[1], c[2], c[3], b.s>>) :
                          c \in {b.i, b.i1} \X {b.j, b.j1} \X {b.k, b.k1} }
    IN  /\ \A v \in Vertices :
              /\ getValueIndex(v[1], v[2], v[3], v[4], nW, nH, nA) = Flat(v)
              /\ getValue(MeanValues, v[1], v[2], v[3], v[4], nW, nH, nA)
                   = Num(MeanAt(v[1], v[2], v[3], v[4]))
              /\ getValue(StdDevValues, v[1], v[2], v[3], v[4], nW, nH, nA)
                   = Num(SdAt(v[1], v[2], v[3], v[4]))
        /\ Fetched = 0 .. (nW * nH * nA * 2 - 1)
        /\ Cardinality(Fetched) = Cardinality(Vertices)
        /\ Len(MeanValues) = nW * nH * nA * 2
        /\ Len(StdDevValues) = nW * nH * nA * 2
        /\ Blended => /\ last.blend.mean.reads = Corners(last.blend.mean)
                      /\ last.blend.sd.reads = Corners(last.blend.sd)

\* a blend that read 8 distinct vertices of a grid whose weight and height
\* axes differ in length
C7_Witness ==
  /\ Blended
  /\ Len(XAxis) # Len(YAxis)
  /\ Len(XAxis) >= 2
  /\ Len(ZAxis) >= 2
  /\ Cardinality(last.blend.mean.reads) = 8

-----------------------------------------------------------------------------
(* C8: consistency across statistics.  The mean blend and the standard     *)
(* deviation blend of a call use the same lower indices, neighbours, sex   *)
(* plane and fractions, and for the same query against a grid whose        *)
(* std_dev values are all multiplied by c the returned stdDev is exactly   *)
(* c times the one returned and the returned meanAAD is the same.          *)

ScaleFactors == {-1, 0, 3}

\* the blends b against the scaled grid agree with the last call
ScaledBy(c, b) ==
  /\ b.sd.value = Times(Num(c), ReturnedSd)
  /\ b.mean.value = ReturnedMean

C8_ConsistentStatistics ==
  Blended =>
    LET m == last.blend.mean
        d == last.blend.sd
    IN  /\ m.i = d.i /\ m.j = d.j /\ m.k = d.k
        /\ m.i1 = d.i1 /\ m.j1 = d.j1 /\ m.k1 = d.k1
        /\ m.s = d.s
        /\ m.xd = d.xd /\ m.yd = d.yd /\ m.zd = d.zd
        /\ ReturnedMean = m.value
        /\ ReturnedSd = d.value
        /\ \A c \in ScaleFactors :
             ScaledBy(c, interpolateBoth(
               [lookupData EXCEPT !.predictions.std_dev =
                  [p \in 1 .. Len(StdDevValues) |-> c * StdDevValues[p]]],
               last.age, last.weight, last.height, last.sex))

\* a query strictly inside a cell on two axes, with a standard deviation
\* that is not zero
C8_Witness ==
  /\ Blended
  /\ RegularGrid
  /\ Lt(Num(0), last.blend.sd.xd)
  /\ Lt(last.blend.sd.xd, Num(1))
  /\ Lt(Num(0), last.blend.sd.zd)
  /\ Lt(last.blend.sd.zd, Num(1))
  /\ Gt(ReturnedSd, Num(0))

-----------------------------------------------------------------------------
(* C9: sex is a discrete selector.  "male" selects plane 0 and "female"    *)
(* plane 1 in both blends; when the lower indices are valid, all 8         *)
(* vertices a blend reads lie in that plane of the value arrays; and the   *)
(* returned meanAAD and stdDev are the same against a grid that differs in *)
(* the values of the other plane only.                                     *)

PlaneShifts == {1, 7}

\* the grid with every value of the planes other than s raised by c
OtherPlaneShifted(s, c) ==
  LET size == Len(XAxis) * Len(YAxis) * Len(ZAxis)
      Shift(values) ==
        [p \in 1 .. Len(values) |->
           IF (p - 1) \div size = s THEN values[p] ELSE values[p] + c]
  IN  [lookupData EXCEPT !.predictions.mean_aad = Shift(MeanValues),
                         !.predictions.std_dev = Shift(StdDevValues)]

\* the blends b return what the last call returned
SameResult(b) ==
  /\ b.mean.value = ReturnedMean
  /\ b.sd.value = ReturnedSd

C9_SexSelector ==
  Blended =>
    LET m == last.blend.mean
        d == last.blend.sd
        size == Len(XAxis) * Len(YAxis) * Len(ZAxis)
    IN  /\ last.sex \in {"male", "female"}
        /\ last.sex = "male" => (m.s = 0 /\ d.s = 0)
        /\ last.sex = "female" => (m.s = 1 /\ d.s = 1)
        /\ (m.i >= 0 /\ m.j >= 0 /\ m.k >= 0)
             => \A r \in m.reads \cup d.reads :
                  r \in (m.s * size) .. ((m.s + 1) * size - 1)
        /\ \A c \in PlaneShifts :
             SameResult(interpolateBoth(OtherPlaneShifted(m.s, c),
                          last.age, last.weight, last.height, last.sex))

\* a query for a female patient strictly inside a cell of the weight axis
C9_Witness ==
  /\ Blended
  /\ RegularGrid
  /\ last.sex = "female"
  /\ last.blend.mean.s = 1
  /\ Cardinality(last.blend.mean.reads) >= 4
  /\ Lt(Num(0), last.blend.mean.xd)
  /\ Lt(last.blend.mean.xd, Num(1))
  /\ IsFinite(ReturnedMean)

-----------------------------------------------------------------------------
(* C10: no query is served before the grid load completes.  In every       *)
(* state where the loaded flag is false (before the load, while the fetch  *)
(* or the parse is pending, after a failed load) no blend has run, the     *)
(* prediction functions of both pages throw "Model not loaded" for the     *)
(* query at hand, a call on the results page has ended with that error,    *)
(* and the calculator page holds no prediction and shows none.             *)

NotLoadedError == [kind |-> "thrown", message |-> "Model not loaded"]

C10_NotServedBeforeLoad ==
  ~isLoaded =>
    /\ ~last.blended
    /\ IsNull(lookupData)
    /\ calculatePrediction(lookupData, isLoaded, input.age, input.weight,
                           input.height, input.sex) = NotLoadedError
    /\ calculateAOVPrediction(lookupData, isLoaded, input.age, input.weight,
                              input.height, input.sex) = NotLoadedError
    /\ (page = "results" /\ last.op # "none") => outcome = NotLoadedError
    /\ page = "calculator" =>
         /\ IsNull(currentPrediction)
         /\ ariaHidden
         /\ shown = [mean |-> Dash, sd |-> Dash, lower |-> Dash,
                     upper |-> Dash]
         /\ zScoreValue = Dash

\* a call on the results page after a failed load, with arguments that
\* would not pass the validation of calculatePrediction
C10_Witness ==
  /\ ~isLoaded
  /\ loadPc = "failed"
  /\ page = "results"
  /\ last.op = "calculateResults"
  /\ last.sex = ""
  /\ outcome = NotLoadedError

-----------------------------------------------------------------------------
(* The documented domain of a query *)

AgeInDomain(age) == Le(Num(0), age) /\ Le(age, Num(59))

WeightInDomain(weight) ==
  Le(Rat(134, 100), weight) /\ Le(weight, Rat(35227, 100))

HeightInDomain(height) ==
  Le(Rat(3048, 100), height) /\ Le(height, Rat(23622, 100))

SexInDomain(sex) == sex \in {"male", "female"}

InDomain(q) ==
  /\ AgeInDomain(q.age)
  /\ WeightInDomain(q.weight)
  /\ HeightInDomain(q.height)
  /\ SexInDomain(q.sex)

\* the fields of q that are outside the domain
FailingFields(q) ==
  (IF AgeInDomain(q.age) THEN {} ELSE {"age"})
  \cup (IF WeightInDomain(q.weight) THEN {} ELSE {"weight"})
  \cup (IF HeightInDomain(q.height) THEN {} ELSE {"height"})
  \cup (IF SexInDomain(q.sex) THEN {} ELSE {"sex"})

InvalidInputError ==
  [kind |-> "thrown", message |-> "Invalid input parameters"]

-----------------------------------------------------------------------------
(* C11: out-of-domain queries never reach the interpolation.  Whenever the *)
(* blends of a call ran, on either page, the arguments of the call had age *)
(* in [0, 59], weight in [1.34, 352.27], height in [30.48, 236.22] and sex *)
(* male or female.                                                         *)

C11_OnlyDomainBlended ==
  Blended => InDomain(last)

-----------------------------------------------------------------------------
(* C12: input validation accepts a query exactly when it is in the domain. *)
(* For the field values handleCalculation has read, validateInputs returns *)
(* no message exactly when they are in the domain (a field that is not a   *)
(* number is rejected); a call of calculateResults made with the grid      *)
(* loaded returns a result exactly when its arguments are in the domain,   *)
(* and throws "Invalid input parameters" otherwise.                        *)

C12_AcceptsExactlyDomain ==
  /\ last.op = "handleCalculation" =>
       ( validateInputs(last.age, last.weight, last.height, last.sex)
           = <<>> ) <=> InDomain(last)
  /\ (last.op = "calculateResults" /\ outcome # NotLoadedError) =>
       /\ (outcome.kind = "returned") <=> InDomain(last)
       /\ (outcome = InvalidInputError) <=> ~InDomain(last)

-----------------------------------------------------------------------------
(* C13: validation completeness.  A rejection reports one entry for every  *)
(* failing field: the messages validateInputs returns for the numeric      *)
(* field values handleCalculation has read are as many as the fields       *)
(* outside the domain, and a call of calculateResults that ends with       *)
(* "Invalid input parameters", a single entry, had a single failing field. *)

C13_ReportsEveryField ==
  /\ ( /\ last.op = "handleCalculation"
       /\ ~IsNaN(last.age) /\ ~IsNaN(last.weight) /\ ~IsNaN(last.height) ) =>
       Len(validateInputs(last.age, last.weight, last.height, last.sex))
         = Cardinality(FailingFields(last))
  /\ (page = "results" /\ outcome = InvalidInputError) =>
       Cardinality(FailingFields(last)) = 1

-----------------------------------------------------------------------------
(* C14: Z-score.  The Z-score is (measured - meanAAD) / stdDev and is      *)
(* computed exactly when a measured value is supplied and is a positive    *)
(* finite number; otherwise it is absent: null in the result of            *)
(* calculateResults, "--" in the Z-score field of the calculator page.     *)

PositiveFinite(v) == ~IsNull(v) /\ IsFinite(v) /\ Gt(v, Num(0))

C14_ZScoreWhenPositive ==
  /\ (page = "results" /\ outcome.kind = "returned") =>
       outcome.zScore =
         IF PositiveFinite(last.measured)
         THEN Over(Minus(last.measured, outcome.meanAAD), outcome.stdDev)
         ELSE Null
  /\ page = "calculator" =>
       zScoreValue =
         IF PositiveFinite(input.measured) /\ ~IsNull(currentPrediction)
         THEN toFixed(Over(Minus(input.measured, currentPrediction.meanAAD),
                           currentPrediction.sdAAD), 100)
         ELSE Dash

-----------------------------------------------------------------------------
(* C15: when the predicted standard deviation is 0 the Z-score is absent,  *)
(* for every measured value: null in the result of calculateResults, "--"  *)
(* in the Z-score field of the calculator page.                            *)

C15_AbsentWhenSdZero ==
  /\ ( /\ page = "results"
       /\ outcome.kind = "returned"
       /\ outcome.stdDev = Num(0) ) => IsNull(outcome.zScore)
  /\ ( /\ page = "calculator"
       /\ ~IsNull(currentPrediction)
       /\ currentPrediction.sdAAD = Num(0) ) => zScoreValue = Dash

-----------------------------------------------------------------------------
(* C16: normal range.  Every returned prediction has                       *)
(* lowerBound = meanAAD - 2 * stdDev and upperBound = meanAAD + 2 * stdDev *)
(* for the meanAAD and stdDev it returns, which are the values of the two  *)
(* blends of the call: in the result of calculateResults and in the        *)
(* prediction the calculator page stores and shows.                        *)

\* lo and hi are the bounds two standard deviations around mean
TwoSdAround(mean, sd, lo, hi) ==
  /\ lo = Minus(mean, Times(Num(2), sd))
  /\ hi = Plus(mean, Times(Num(2), sd))

C16_NormalRange ==
  /\ (page = "results" /\ outcome.kind = "returned") =>
       /\ TwoSdAround(outcome.meanAAD, outcome.stdDev,
                      outcome.lowerBound, outcome.upperBound)
       /\ Blended
       /\ outcome.meanAAD = last.blend.mean.value
       /\ outcome.stdDev = last.blend.sd.value
  /\ (page = "calculator" /\ ~IsNull(currentPrediction)) =>
       /\ TwoSdAround(currentPrediction.meanAAD, currentPrediction.sdAAD,
                      currentPrediction.lowerBound,
                      currentPrediction.upperBound)
       /\ shown.mean = toFixed(currentPrediction.meanAAD, 100)
       /\ shown.sd = toFixed(currentPrediction.sdAAD, 100)
       /\ shown.lower = toFixed(currentPrediction.lowerBound, 10)
       /\ shown.upper = toFixed(currentPrediction.upperBound, 10)
       /\ Blended =>
            /\ currentPrediction.meanAAD = last.blend.mean.value
            /\ currentPrediction.sdAAD = last.blend.sd.value

\* a result with a standard deviation that is not a whole number, so that
\* the bounds differ from the mean by a fraction
C16_Witness ==
  /\ page = "results"
  /\ outcome.kind = "returned"
  /\ IsFinite(outcome.stdDev)
  /\ Gt(outcome.stdDev, Num(0))
  /\ outcome.stdDev.d > 1
  /\ Lt(outcome.lowerBound, outcome.meanAAD)

-----------------------------------------------------------------------------
(* C17: the grid is loaded once and is read-only afterwards.  Once the     *)
(* loaded flag is true, no step (a prediction, a Z-score computation, a    *)
(* further load call and its completion) changes the axis arrays or the    *)
(* value arrays or clears the flag.                                        *)

C17_ReadOnlyAfterLoad ==
  [][isLoaded => (isLoaded' /\ lookupData' = lookupData)]_vars

-----------------------------------------------------------------------------
(* C18: a malformed grid is rejected by the load.  The loaded flag is true *)
(* only for a grid whose value arrays both have nW * nH * nA * 2 elements  *)
(* and whose axes are strictly increasing.                                 *)

WellFormed(data) ==
  LET size == Len(data.grid_axes.log_weight)
                * Len(data.grid_axes.sqrt_height)
                * Len(data.grid_axes.log_age_plus_1) * 2
  IN  /\ Len(data.predictions.mean_aad) = size
      /\ Len(data.predictions.std_dev) = size
      /\ StrictlyIncreasing(data.grid_axes.log_weight)
      /\ StrictlyIncreasing(data.grid_axes.sqrt_height)
      /\ StrictlyIncreasing(data.grid_axes.log_age_plus_1)

C18_MalformedRejected ==
  isLoaded => WellFormed(lookupData)

-----------------------------------------------------------------------------
(* C19: a failed fetch.  When the load call has failed (its promise        *)
(* rejected on the results page, its catch block run on the calculator     *)
(* page), the loaded flag is false and the grid unset, queries are         *)
(* rejected as not loaded and none has been blended, the calculator page   *)
(* has status "error", no prediction, and shows the load error at the      *)
(* step of the failure; and the only step that leaves the failed state is  *)
(* a new call of loadModel on the results page: nothing retries by itself. *)

LoadErrorShown ==
  [display |-> "block",
   text |-> <<"Failed to load the calculation model. Please refresh the page.">>]

C19_FetchFailureSurfaced ==
  [][ /\ loadPc' = "failed" =>
           /\ ~isLoaded'
           /\ IsNull(lookupData')
           /\ ~last'.blended
           /\ calculatePrediction(lookupData', isLoaded', input'.age,
                                  input'.weight, input'.height, input'.sex)
                = NotLoadedError
           /\ page' = "calculator" =>
                /\ status' = "error"
                /\ IsNull(currentPrediction')
                /\ ariaHidden'
      /\ (loadPc # "failed" /\ loadPc' = "failed" /\ page = "calculator")
           => errorMessage' = LoadErrorShown
      /\ (loadPc = "failed" /\ loadPc' # "failed")
           => (page = "results" /\ loadPc' = "fetching")
    ]_vars

\* after a failed load on the calculator page a valid form was submitted
C19_Witness ==
  /\ loadPc = "failed"
  /\ page = "calculator"
  /\ status = "error"
  /\ last.op = "handleCalculation"
  /\ InDomain(last)
  /\ ~isLoaded

-----------------------------------------------------------------------------
(* C20: the JavaScript port matches the R reference.  On a grid whose axes *)
(* are strictly increasing with at least two samples, for the query and    *)
(* sex of every call, the lower indices of the JavaScript blend are those  *)
(* of R's find_lower_index minus 1, the sex plane is R's m minus 1, the 8  *)
(* elements read are the same elements of the value array, the fractions   *)
(* are equal and the returned value is equal, for the mean and for the     *)
(* standard deviation.                                                     *)

\* the locals js of a JavaScript blend against the locals r of R's
SameAsR(js, r) ==
  /\ js.i = r.i - 1
  /\ js.j = r.j - 1
  /\ js.k = r.k - 1
  /\ js.s = r.m - 1
  /\ js.i1 = r.i /\ js.j1 = r.j /\ js.k1 = r.k
  /\ js.xd = r.xd /\ js.yd = r.yd /\ js.zd = r.zd
  /\ js.reads = { p - 1 : p \in r.reads }
  /\ js.value = r.value

C20_MatchesR ==
  (Blended /\ RegularGrid) =>
    /\ SameAsR(last.blend.mean,
               R_trilinear_interp(XAxis, YAxis, ZAxis, MeanValues,
                                  last.blend.xq, last.blend.yq, last.blend.zq,
                                  SexPlane))
    /\ SameAsR(last.blend.sd,
               R_trilinear_interp(XAxis, YAxis, ZAxis, StdDevValues,
                                  last.blend.xq, last.blend.yq, last.blend.zq,
                                  SexPlane))
    /\ ReturnedMean = last.blend.mean.value
    /\ ReturnedSd = last.blend.sd.value

\* a query for a female patient strictly inside a weight cell, on the last
\* age sample and above the height range
C20_Witness ==
  /\ Blended
  /\ RegularGrid
  /\ last.sex = "female"
  /\ Lt(Num(0), last.blend.mean.xd)
  /\ Lt(last.blend.mean.xd, Num(1))
  /\ Gt(last.blend.yq, Final(YAxis))
  /\ last.blend.zq = Final(ZAxis)
  /\ last.blend.mean.k = Len(ZAxis) - 2
  /\ IsFinite(ReturnedMean)

-----------------------------------------------------------------------------
(* C23: the two JavaScript engines agree.  On a loaded grid, for the       *)
(* arguments of every call of one engine, the other engine accepts them    *)
(* exactly when the first did, and when both return, the mean, the         *)
(* standard deviation and the two bounds of the normal range are equal.    *)

\* the results-page engine returned r where the calculator-page engine
\* returned p
SamePrediction(r, p) ==
  /\ r.meanAAD = p.meanAAD
  /\ r.stdDev = p.sdAAD
  /\ r.lowerBound = p.lowerBound
  /\ r.upperBound = p.upperBound

C23_EnginesAgree ==
  isLoaded =>
    /\ (last.op = "calculateResults" /\ outcome # NotLoadedError) =>
         LET p == calculateAOVPrediction(lookupData, isLoaded, last.age,
                    last.weight, last.height, last.sex)
         IN  /\ (outcome.kind = "returned") <=> (p.kind = "returned")
             /\ (outcome.kind = "returned" /\ p.kind = "returned")
                  => SamePrediction(outcome, p)
    /\ (page = "calculator" /\ Blended) =>
         LET r == calculateResults(lookupData, isLoaded, last.age,
                    last.weight, last.height, last.sex, last.measured)
         IN  /\ r.kind = "returned"
             /\ SamePrediction(r, currentPrediction)

-----------------------------------------------------------------------------
(* C25: no Z-score from a stale prediction.  Once a recalculation on the   *)
(* calculator page has found the form's inputs missing or invalid and has  *)
(* hidden the results, an edit of the measured field leaves the Z-score    *)
(* field at "--": no Z-score is computed from the prediction stored by an  *)
(* earlier recalculation.                                                  *)

\* the last recalculation got past the loaded test, found the inputs
\* missing or invalid and hid the results section
HiddenByRecalculation ==
  /\ page = "calculator"
  /\ isLoaded
  /\ ariaHidden
  /\ last.op \in {"checkAndCalculateRealTime", "handleCalculation"}
  /\ ~last.blended

C25_NoStaleZScore ==
  [][ (HiddenByRecalculation /\ input'.measured # input.measured)
        => zScoreValue' = Dash ]_vars

-----------------------------------------------------------------------------
(* C30: the blend is a convex combination.  For every call whose three     *)
(* transformed coordinates lie within the sampled range of their axes, the *)
(* samples at the lower and upper index used on each axis enclose the      *)
(* coordinate, and the returned mean and standard deviation lie between    *)
(* the smallest and the largest of the 8 vertex values read for them.      *)

\* the transformed query of the last call lies within all three axes
InSampledRange ==
  \A m \in 1 .. 3 :
    /\ Le(First(AxisUse[m].axis), AxisUse[m].q)
    /\ Le(AxisUse[m].q, Final(AxisUse[m].axis))

\* the samples at the indices used on each axis enclose the query
CellEncloses ==
  \A m \in 1 .. 3 :
    /\ Le(At(AxisUse[m].axis, AxisUse[m].lo), AxisUse[m].q)
    /\ Le(AxisUse[m].q, At(AxisUse[m].axis, AxisUse[m].hi))

\* the vertex values the blend b read from flatValues
VertexValues(flatValues, b) == { At(flatValues, p) : p \in b.reads }

\* v lies between the smallest and the largest element of the set vs
Between(v, vs) ==
  /\ \E lo \in vs : Le(lo, v)
  /\ \E hi \in vs : Le(v, hi)

C30_ConvexBlend ==
  (Blended /\ InSampledRange) =>
    /\ CellEncloses
    /\ Between(ReturnedMean, VertexValues(MeanValues, last.blend.mean))
    /\ Between(ReturnedSd, VertexValues(StdDevValues, last.blend.sd))

\* a query strictly inside a cell on the weight axis, in range on the other
\* two, whose mean lies strictly between two of its vertex values
C30_Witness ==
  /\ Blended
  /\ InSampledRange
  /\ Lt(Num(0), last.blend.mean.xd)
  /\ Lt(last.blend.mean.xd, Num(1))
  /\ Cardinality(last.blend.mean.reads) >= 4
  /\ \E lo \in VertexValues(MeanValues, last.blend.mean) : Lt(lo, ReturnedMean)
  /\ \E hi \in VertexValues(MeanValues, last.blend.mean) : Lt(ReturnedMean, hi)

-----------------------------------------------------------------------------
(* findLowerIndex step by step: the two early returns, then the while loop *)
(* one iteration at a time.                                                *)

MaxSearchLen == 6

\* the axes searched: strictly increasing, 2 to MaxSearchLen samples
SearchAxes == { Axis(1, len) : len \in 2 .. MaxSearchLen }

\* the queries: every sample, every midpoint, values outside the range, and
\* the values that are no finite number
SearchQueries(vec) ==
  { Rat(m, 2) : m \in 0 .. (2 * vec[Len(vec)] + 2) } \cup { NaN, Inf(-1), Inf(1) }

\* faulty variant: the loop runs until left meets right
loopTest_UntilEqual(left, right) == left < right

\* the loop condition: left < right - 1
loopTest(left, right) == left < right - 1

\* Math.floor((left + right) / 2)
midOf(left, right) == (left + right) \div 2

\* the page's chosen inputs, no load and no call: the state the parts of the
\* program outside a specification stay in
PageAtRest ==
  /\ page = "results"
  /\ input = [age |-> Num(2), weight |-> Num(10), height |-> Num(50),
              sex |-> "male", measured |-> Null]
  /\ lookupData = Null
  /\ isLoaded = FALSE
  /\ loadPc = "idle"
  /\ status = ""
  /\ errorMessage = NoError
  /\ ariaHidden = TRUE
  /\ currentPrediction = Null
  /\ zScoreValue = Dash
  /\ shown = [mean |-> Dash, sd |-> Dash, lower |-> Dash, upper |-> Dash]
  /\ outcome = [kind |-> "none"]
  /\ last = NoCall

calculator == <<page, input, lookupData, isLoaded, loadPc, dom, outcome, last>>

InitSearch ==
  /\ PageAtRest
  /\ \E vec \in SearchAxes : \E q \in SearchQueries(vec) :
       search = [pc |-> "called", vec |-> vec, q |-> q, left |-> 0,
                 right |-> 0, result |-> Null]
  /\ calls = <<>>
  /\ NoWorker
  /\ NoForm

\* the call up to the loop: the two early returns, or left and right set
EnterSearch ==
  /\ search.pc = "called"
  /\ LET n == Len(search.vec)
     IN  search' =
           IF Le(search.q, At(search.vec, 0))
           THEN [search EXCEPT !.pc = "returned", !.result = 0]
           ELSE IF Ge(search.q, At(search.vec, n - 1))
           THEN [search EXCEPT !.pc = "returned", !.result = n - 2]
           ELSE [search EXCEPT !.pc = "loop", !.left = 0, !.right = n - 1]
  /\ UNCHANGED <<calculator, calls, worker, form>>

\* one iteration of the while loop
LoopIteration ==
  /\ search.pc = "loop"
  /\ loopTest(search.left, search.right)
  /\ LET mid == midOf(search.left, search.right)
     IN  search' = IF Le(At(search.vec, mid), search.q)
                   THEN [search EXCEPT !.left = mid]
                   ELSE [search EXCEPT !.right = mid]
  /\ UNCHANGED <<calculator, calls, worker, form>>

\* the loop condition fails: return left
LoopExit ==
  /\ search.pc = "loop"
  /\ ~loopTest(search.left, search.right)
  /\ search' = [search EXCEPT !.pc = "returned", !.result = search.left]
  /\ UNCHANGED <<calculator, calls, worker, form>>

NextSearch ==
  \/ EnterSearch
  \/ LoopIteration
  \/ LoopExit

\* a call that has started runs on: JavaScript runs a function to completion
SpecSearch == InitSearch /\ [][NextSearch]_vars /\ WF_vars(NextSearch)

-----------------------------------------------------------------------------
(* C29: the binary search terminates.  For every strictly increasing axis  *)
(* of at least two samples and every query, 0 <= left < right <= n - 1     *)
(* holds whenever the loop condition is evaluated, every iteration makes   *)
(* right - left strictly smaller, and the call returns.                    *)

LoopBounds ==
  search.pc = "loop" =>
    /\ 0 <= search.left
    /\ search.left < search.right
    /\ search.right <= Len(search.vec) - 1

GapShrinks ==
  (search.pc = "loop" /\ search'.pc = "loop") =>
    (search'.right - search'.left) < (search.right - search.left)

C29_SearchTerminates ==
  /\ []LoopBounds
  /\ [][GapShrinks]_vars
  /\ <>(search.pc = "returned" /\ search.result = findLowerIndex(search.vec, search.q))

\* a query strictly inside the range of the longest axis whose search took
\* two iterations at least and returned an interior cell
C29_Witness ==
  /\ search.pc = "returned"
  /\ Len(search.vec) >= MaxSearchLen
  /\ search.right - search.left = 1
  /\ search.left >= 2
  /\ search.result = search.left
  /\ Lt(At(search.vec, search.left), search.q)
  /\ Lt(search.q, At(search.vec, search.right))

-----------------------------------------------------------------------------
(* Concurrent loadModel calls on one ResultsCalculator: each call is       *)
(* suspended at its fetch and at its response.json(), and the calls'       *)
(* continuations run in any order.                                         *)

MaxCalls == 3

Callers == 1 .. MaxCalls

\* what a response.json() may resolve with
ParsedFiles == DataFiles \cup MalformedFiles

InitLoads ==
  /\ PageAtRest
  /\ search = NoSearch
  /\ calls = [c \in Callers |-> "idle"]
  /\ NoWorker
  /\ NoForm

\* caller c calls loadModel: the call runs up to its fetch
CallLoadModel(c) ==
  /\ calls[c] \in {"idle", "done", "failed"}
  /\ calls' = [calls EXCEPT ![c] = "fetching"]
  /\ UNCHANGED <<calculator, search, worker, form>>

\* the fetch of call c resolves with response.ok
FetchResolves(c) ==
  /\ calls[c] = "fetching"
  /\ calls' = [calls EXCEPT ![c] = "parsing"]
  /\ UNCHANGED <<calculator, search, worker, form>>

\* faulty variant: the catch block of call c drops the grid
loadModelCatch_DropsGrid(c) ==
  /\ calls' = [calls EXCEPT ![c] = "failed"]
  /\ lookupData' = Null
  /\ UNCHANGED <<page, input, isLoaded, loadPc, dom, outcome, last>>
  /\ UNCHANGED <<search, worker, form>>

\* the catch block of call c: the error is logged and thrown on
loadModelCatch(c) ==
  /\ calls' = [calls EXCEPT ![c] = "failed"]
  /\ UNCHANGED <<calculator, search, worker, form>>

\* the fetch of call c rejects, or resolves with a status that is not ok
FetchRejects(c) ==
  /\ calls[c] = "fetching"
  /\ loadModelCatch(c)

\* response.json() of call c resolves: the grid is assigned, then the flag
JsonResolves(c) ==
  /\ calls[c] = "parsing"
  /\ \E data \in ParsedFiles : lookupData' = data
  /\ isLoaded' = TRUE
  /\ calls' = [calls EXCEPT ![c] = "done"]
  /\ UNCHANGED <<page, input, loadPc, dom, outcome, last>>
  /\ UNCHANGED <<search, worker, form>>

\* response.json() of call c rejects
JsonRejects(c) ==
  /\ calls[c] = "parsing"
  /\ loadModelCatch(c)

NextLoads ==
  \E c \in Callers :
    \/ CallLoadModel(c)
    \/ FetchResolves(c)
    \/ FetchRejects(c)
    \/ JsonResolves(c)
    \/ JsonRejects(c)

SpecLoads == InitLoads /\ [][NextLoads]_vars

-----------------------------------------------------------------------------
(* C26: concurrent loads keep the flag and the grid consistent.  Under any *)
(* interleaving of loadModel calls, whenever isLoaded is true lookupData   *)
(* is a grid that a response.json() resolved with; the flag is never set   *)
(* in a step that does not also assign such a grid; and a step in which a  *)
(* call fails changes neither the grid nor the flag.                       *)

GridWhenLoaded == isLoaded => lookupData \in ParsedFiles

\* some call fails in this step
SomeCallFails == \E c \in Callers : calls[c] # "failed" /\ calls'[c] = "failed"

FlagAndGridSteps ==
  /\ (~isLoaded /\ isLoaded') => lookupData' \in ParsedFiles
  /\ isLoaded => isLoaded'
  /\ SomeCallFails => (lookupData' = lookupData /\ isLoaded' = isLoaded)

-----------------------------------------------------------------------------
(* The service worker, releases v1.0.2 and v1.1.2: install, activate and   *)
(* fetch.  A cache is the set of URLs it holds a response for.             *)

ModelData == "/data/groningen_aad_lookup.json"

\* FILES_TO_CACHE, four of its twenty entries: two pages, a script and the
\* model data
FILES_TO_CACHE ==
  << "/index.html", "/results/index.html", "/js/version.js", ModelData >>

Files == { FILES_TO_CACHE[m] : m \in 1 .. Len(FILES_TO_CACHE) }

CACHE_NAME ==
  IF swVersion = "v1.0.2" THEN "groningen-aov-v1.0.2" ELSE "groningen-aov-v1.1.2"

DATA_CACHE_NAME ==
  IF swVersion = "v1.0.2" THEN "groningen-aov-data-v1.0.2"
  ELSE "groningen-aov-data-v1.1.2"

\* the caches of this release and the app-shell cache of the one before it,
\* in the order caches.match searches them
CacheKeys == << "groningen-aov-v1.0.1", CACHE_NAME, DATA_CACHE_NAME >>

\* the requests the pages make: the model data, a page, a script and the
\* manifest, and a request of a browser extension
Requests ==
  { [url |-> ModelData, destination |-> "", protocol |-> "https:"],
    [url |-> "/results/index.html", destination |-> "document",
     protocol |-> "https:"],
    [url |-> "/js/version.js", destination |-> "script", protocol |-> "https:"],
    [url |-> "/manifest.json", destination |-> "manifest",
     protocol |-> "https:"],
    [url |-> "/content.js", destination |-> "script",
     protocol |-> "chrome-extension:"] }

\* url.pathname.includes("/data/")
IsDataPath(url) == url = ModelData

\* url.pathname.endsWith('.html') || endsWith('.js') || endsWith('.css')
IsAppFile(url) ==
  url \in {"/index.html", "/results/index.html", "/js/version.js",
           "/content.js"}

\* request.url.includes('.json')
IsJsonUrl(url) == url \in {ModelData, "/manifest.json"}

\* request.url.includes('version')
IsVersionUrl(url) == url = "/js/version.js"

\* url.pathname.includes('results')
IsResultsPath(url) == url = "/results/index.html"

\* what one fetch event meets: net is the status the network answers with,
\* or 0 when the fetch rejects (offline, or aborted by the timeout); open,
\* match and put tell whether caches.open, cache.match and cache.put work
\* (a handler whose caches.open fails never reaches its cache.match)
Environments ==
  { e \in [net : {200, 404, 0}, open : BOOLEAN, match : BOOLEAN,
           put : BOOLEAN] : e.open \/ e.match }

\* the Response of the network for url
Fresh(code, url) ==
  [kind |-> "Response", status |-> code, from |-> "network", url |-> url]

\* the Response cache name holds for url
Cached(name, url) ==
  [kind |-> "Response", status |-> 200, from |-> name, url |-> url]

\* new Response(body, { status })
NewResponse(code, body) ==
  [kind |-> "Response", status |-> code, from |-> "worker", body |-> body]

\* a promise resolved with undefined, and a rejected one
Undefined == [kind |-> "undefined"]

Rejected == [kind |-> "rejected"]

\* what a handler leaves: the value its promise settles with and the
\* entries its cache.put calls store
Settled(response, puts) == [response |-> response, puts |-> puts]

\* cache.put of a response with status code into cache name
Put(name, url, code, e) ==
  IF code = 200 /\ e.open /\ e.put THEN {<<name, url>>} ELSE {}

\* createOfflinePage
createOfflinePage == NewResponse(200, "offline page")

\* createErrorResponse
createErrorResponse(request) ==
  IF request.destination = "document" THEN createOfflinePage
  ELSE IF IsJsonUrl(request.url)
  THEN NewResponse(503, "Data unavailable offline")
  ELSE NewResponse(503, "Resource unavailable")

\* getFallbackPage, the cache API working
getFallbackPage(request, name) ==
  IF IsResultsPath(request.url) /\ "/results/index.html" \in caches[name]
  THEN Cached(name, "/results/index.html")
  ELSE IF "/index.html" \in caches[name] THEN Cached(name, "/index.html")
  ELSE IF "/" \in caches[name] THEN Cached(name, "/")
  ELSE createOfflinePage

\* faulty variant: a miss of the data cache is returned as it is
handleDataRequest_ReturnsMiss(request, e) ==
  IF ~e.open
  THEN Settled(IF e.net = 0
               THEN NewResponse(503, "Service unavailable")
               ELSE Fresh(e.net, request.url), {})
  ELSE IF e.net # 0
  THEN Settled(Fresh(e.net, request.url),
               Put(DATA_CACHE_NAME, request.url, e.net, e))
  ELSE IF ~e.match
  THEN Settled(NewResponse(503, "Service unavailable"), {})
  ELSE IF request.url \in caches[DATA_CACHE_NAME]
  THEN Settled(Cached(DATA_CACHE_NAME, request.url), {})
  ELSE Settled(Undefined, {})

\* handleDataRequest (v1.1.2)
handleDataRequest(request, e) ==
  IF ~e.open
  THEN Settled(IF e.net = 0
               THEN NewResponse(503, "Service unavailable")
               ELSE Fresh(e.net, request.url), {})
  ELSE IF e.net # 0
  THEN Settled(Fresh(e.net, request.url),
               Put(DATA_CACHE_NAME, request.url, e.net, e))
  ELSE IF ~e.match
  THEN Settled(NewResponse(503, "Service unavailable"), {})
  ELSE IF request.url \in caches[DATA_CACHE_NAME]
  THEN Settled(Cached(DATA_CACHE_NAME, request.url), {})
  ELSE Settled(NewResponse(503, "Data temporarily unavailable"), {})

\* handleDevelopmentRequest (v1.1.2)
handleDevelopmentRequest(request, e) ==
  IF e.net # 0
  THEN Settled(Fresh(e.net, request.url),
               Put(CACHE_NAME, request.url, e.net, e))
  ELSE IF ~e.open \/ ~e.match
  THEN Settled(createErrorResponse(request), {})
  ELSE IF request.url \in caches[CACHE_NAME]
  THEN Settled(Cached(CACHE_NAME, request.url), {})
  ELSE IF request.destination = "document"
  THEN Settled(getFallbackPage(request, CACHE_NAME), {})
  ELSE Settled(createErrorResponse(request), {})

\* handleProductionRequest (v1.1.2)
handleProductionRequest(request, e) ==
  IF ~e.open \/ ~e.match
  THEN Settled(createErrorResponse(request), {})
  ELSE IF request.url \in caches[CACHE_NAME]
  THEN Settled(Cached(CACHE_NAME, request.url),
               IF \/ request.destination = "document"
                  \/ IsJsonUrl(request.url)
                  \/ IsVersionUrl(request.url)
               THEN Put(CACHE_NAME, request.url, e.net, e)
               ELSE {})
  ELSE IF e.net # 0
  THEN Settled(Fresh(e.net, request.url),
               Put(CACHE_NAME, request.url, e.net, e))
  ELSE IF request.destination = "document"
  THEN Settled(getFallbackPage(request, CACHE_NAME), {})
  ELSE Settled(createErrorResponse(request), {})

\* caches.match(request): the first cache, in key order, that holds the URL
cachesMatch(url) ==
  IF \E m \in 1 .. Len(CacheKeys) : url \in caches[CacheKeys[m]]
  THEN Cached(CacheKeys[CHOOSE m \in 1 .. Len(CacheKeys) :
                 /\ url \in caches[CacheKeys[m]]
                 /\ \A l \in 1 .. (m - 1) : url \notin caches[CacheKeys[l]]],
              url)
  ELSE Undefined

\* cache.match(url) of cache name
cacheMatch(name, url) ==
  IF url \in caches[name] THEN Cached(name, url) ELSE Undefined

\* the fetch listener of v1.0.2: what respondWith is handed
respondWith_v102(request, e) ==
  IF IsDataPath(request.url)
  THEN IF ~e.open THEN Settled(Rejected, {})
       ELSE IF e.net # 0
       THEN Settled(Fresh(e.net, request.url),
                    Put(DATA_CACHE_NAME, request.url, e.net, e))
       ELSE IF ~e.match THEN Settled(Rejected, {})
       ELSE Settled(cacheMatch(DATA_CACHE_NAME, request.url), {})
  ELSE IF isDevelopment /\ IsAppFile(request.url)
  THEN IF e.net # 0
       THEN Settled(Fresh(e.net, request.url),
                    Put(CACHE_NAME, request.url, e.net, e))
       ELSE IF ~e.match THEN Settled(Rejected, {})
       ELSE Settled(cachesMatch(request.url), {})
  ELSE IF ~e.open \/ ~e.match THEN Settled(Rejected, {})
  ELSE IF request.url \in caches[CACHE_NAME]
  THEN Settled(Cached(CACHE_NAME, request.url), {})
  ELSE IF e.net # 0
  THEN Settled(Fresh(e.net, request.url),
               Put(CACHE_NAME, request.url, e.net, e))
  ELSE IF request.destination # "document" THEN Settled(Undefined, {})
  ELSE IF IsResultsPath(request.url)
          /\ ("/results/index.html" \in caches[CACHE_NAME]
              \/ "/results/" \in caches[CACHE_NAME])
  THEN Settled(IF "/results/index.html" \in caches[CACHE_NAME]
               THEN Cached(CACHE_NAME, "/results/index.html")
               ELSE Cached(CACHE_NAME, "/results/"), {})
  ELSE Settled(cacheMatch(CACHE_NAME, "/index.html"), {})

\* the fetch listener of v1.1.2 for an http(s) request
respondWith_v112(request, e) ==
  IF IsDataPath(request.url) THEN handleDataRequest(request, e)
  ELSE IF isDevelopment /\ IsAppFile(request.url)
  THEN handleDevelopmentRequest(request, e)
  ELSE handleProductionRequest(request, e)

\* a worker is registered: nothing installed, the caches of this release
\* empty, the previous release's cache holding its files
InitWorker ==
  /\ PageAtRest
  /\ search = NoSearch
  /\ calls = <<>>
  /\ NoForm
  /\ swVersion \in {"v1.0.2", "v1.1.2"}
  /\ isDevelopment \in BOOLEAN
  /\ installState = [phase |-> "registered", added |-> {}]
  /\ caches = [name \in {CacheKeys[m] : m \in 1 .. Len(CacheKeys)} |->
                 IF name = CacheKeys[1] THEN Files ELSE {}]
  /\ reply = [kind |-> "none"]

\* cache.add(url).catch(err => null): the promise fulfils whether or not
\* the file was added
cacheAddCaught(added) == "fulfilled"

\* the install listener of v1.1.2, caches.open working: the tally over the
\* settled promises decides
installOutcome_v112(added) ==
  LET results == [m \in 1 .. Len(FILES_TO_CACHE) |->
                    cacheAddCaught(FILES_TO_CACHE[m] \in added)]
      succeeded == Cardinality({m \in 1 .. Len(results) :
                                  results[m] = "fulfilled"})
  IN  IF 2 * succeeded < Len(FILES_TO_CACHE) THEN "failed" ELSE "installed"

\* v1.1.2 registers its install listener as the last operand of the `||`
\* chain that computes isDevelopment: on localhost the chain stops before it
installListenerRegistered == swVersion = "v1.0.2" \/ ~isDevelopment

\* the install event.  added: the files whose request succeeded
Install ==
  /\ installState.phase \in {"registered", "failed"}
  /\ \E open \in BOOLEAN : \E added \in SUBSET Files :
       IF ~installListenerRegistered
       THEN /\ installState' = [phase |-> "installed", added |-> {}]
            /\ UNCHANGED caches
       ELSE IF ~open
       THEN /\ installState' = [phase |-> "failed", added |-> {}]
            /\ UNCHANGED caches
       ELSE IF swVersion = "v1.0.2"
       THEN \* cache.addAll stores all the files or none
            IF added = Files
            THEN /\ installState' = [phase |-> "installed", added |-> Files]
                 /\ caches' = [caches EXCEPT ![CACHE_NAME] = @ \cup Files]
            ELSE /\ installState' = [phase |-> "failed", added |-> {}]
                 /\ UNCHANGED caches
       ELSE /\ installState' = [phase |-> installOutcome_v112(added),
                                added |-> added]
            /\ caches' = [caches EXCEPT ![CACHE_NAME] = @ \cup added]
  /\ UNCHANGED <<calculator, search, calls, form>>
  /\ UNCHANGED <<swVersion, isDevelopment, reply>>

\* the activate event: every cache of another release is deleted
Activate ==
  /\ installState.phase = "installed"
  /\ installState' = [installState EXCEPT !.phase = "activated"]
  /\ caches' = [name \in DOMAIN caches |->
                  IF name \in {CACHE_NAME, DATA_CACHE_NAME}
                  THEN caches[name] ELSE {}]
  /\ UNCHANGED <<calculator, search, calls, form>>
  /\ UNCHANGED <<swVersion, isDevelopment, reply>>

\* a fetch event of a controlled page
Fetch ==
  /\ installState.phase = "activated"
  /\ \E request \in Requests : \E e \in Environments :
       IF swVersion = "v1.1.2" /\ request.protocol \notin {"http:", "https:"}
       THEN /\ reply' = [kind |-> "passed", request |-> request]
            /\ UNCHANGED caches
       ELSE LET h == IF swVersion = "v1.1.2"
                     THEN respondWith_v112(request, e)
                     ELSE respondWith_v102(request, e)
            IN  /\ reply' = [kind |-> "answered", request |-> request,
                             net |-> e.net, open |-> e.open,
                             match |-> e.match, response |-> h.response]
                /\ caches' = [name \in DOMAIN caches |->
                                caches[name] \cup
                                  {p[2] : p \in {x \in h.puts : x[1] = name}}]
  /\ UNCHANGED <<calculator, search, calls, form>>
  /\ UNCHANGED <<swVersion, isDevelopment, installState>>

NextWorker ==
  \/ Install
  \/ Activate
  \/ Fetch

SpecWorker == InitWorker /\ [][NextWorker]_vars

-----------------------------------------------------------------------------
(* C21: the model data is available offline.  After an install that stored *)
(* every entry of FILES_TO_CACHE, and while no data response has yet been  *)
(* stored by a fetch through the worker, a request for the model data      *)
(* whose network fetch fails (the cache API working) is answered with the  *)
(* response for the model data that install stored.                        *)

\* install stored every entry of FILES_TO_CACHE
AllPrecached == \A f \in Files : f \in caches[CACHE_NAME]

\* the last fetch event asked for the model data and its network fetch failed
OfflineDataRequest ==
  /\ reply.kind = "answered"
  /\ reply.request.url = ModelData
  /\ reply.net = 0
  /\ reply.open /\ reply.match

C21_OfflineModelData ==
  (installState.phase = "activated" /\ AllPrecached /\ OfflineDataRequest
     /\ ModelData \notin caches[DATA_CACHE_NAME])
    => reply.response = Cached(CACHE_NAME, ModelData)

-----------------------------------------------------------------------------
(* C24: the install of v1.1.2 fails exactly when fewer than half of the    *)
(* entries of FILES_TO_CACHE were added to the cache: a file that could    *)
(* not be added counts as a failure.                                       *)

C24_InstallTally ==
  (swVersion = "v1.1.2" /\ installState.phase \in {"installed", "failed"})
    => ((installState.phase = "failed")
          <=> (2 * Cardinality(installState.added) < Len(FILES_TO_CACHE)))

-----------------------------------------------------------------------------
(* C28: v1.1.2 answers every handled fetch with a Response.  Whatever the  *)
(* network does, whatever the caches hold and whichever cache call fails,  *)
(* the promise handed to respondWith for an http(s) request resolves to a  *)
(* Response: the network's, a cached one, the offline page or a 503.       *)

\* r is a Response the worker may answer with
ProperResponse(r) ==
  /\ r.kind = "Response"
  /\ \/ r.from = "network" /\ r.status \in {200, 404}
     \/ r.from \in {CACHE_NAME, DATA_CACHE_NAME} /\ r.status = 200
     \/ r.from = "worker" /\ r = createOfflinePage
     \/ r.from = "worker" /\ r.status = 503

C28_AlwaysAResponse ==
  (swVersion = "v1.1.2" /\ reply.kind = "answered")
    => ProperResponse(reply.response)

\* offline, the data cache empty and the cache API working: the data handler
\* answered with its 503
C28_Witness ==
  /\ swVersion = "v1.1.2"
  /\ OfflineDataRequest
  /\ ModelData \notin caches[DATA_CACHE_NAME]
  /\ reply.response.kind = "Response"
  /\ reply.response.status = 503


-----------------------------------------------------------------------------
(* The form controllers.  EnhancedFormController drives the calculator     *)
(* page's form through FormValueReader and FormDisplayUpdater and starts   *)
(* the debounced calculation; UniversalFormController drives the form of   *)
(* the landing and results pages.                                          *)

\* the value of a field nothing is typed into
Empty == [text |-> ""]

IsEmpty(v) == "text" \in DOMAIN v

\* parseFloat(field.value) || 0
parseFloatOr0(v) == IF IsEmpty(v) \/ IsNaN(v) THEN Num(0) ELSE v

\* Conversions
cmToInches(cm) == Over(cm, Rat(254, 100))

inchesToCm(inches) == Times(inches, Rat(254, 100))

kgToLbs(kg) == Times(kg, Rat(220462, 100000))

lbsToKg(lbs) == Over(lbs, Rat(220462, 100000))

convertToYears(value, unit) ==
  Times(value, CASE unit = "years"  -> Num(1)
                 [] unit = "months" -> Rat(1, 12)
                 [] unit = "weeks"  -> Rat(100, 5218)
                 [] unit = "days"   -> Rat(100, 36525))

\* a parenthesised conversion text: the number shown and its unit
ConversionText(value, unit) == [value |-> value, unit |-> unit]

\* the debounce delay of debouncedCalculate, in milliseconds
Delay == 300

\* the step of the clock, in milliseconds
TickMs == 100

\* how many form events a behaviour holds
MaxEvents == 3

Controllers == {"EnhancedFormController", "UniversalFormController"}

AgeUnits == {"years", "months"}

\* what the user types, in the unit the form shows
HeightEntries(isMetric) == IF isMetric THEN {Empty, Num(170)}
                           ELSE {Empty, Num(67)}

WeightEntries(isMetric) == IF isMetric THEN {Rat(413, 10)}
                           ELSE {Rat(911, 10)}

AgeEntries == {Num(2)}

SexEntries == {"", "male"}

\* FormDisplayUpdater.updateUnits: placeholder, min, max and unit text of
\* the height and weight fields
unitTexts(isMetric) ==
  IF isMetric
  THEN [heightPlaceholder |-> "Height in cm", heightMin |-> "30",
        heightMax |-> "236", heightUnit |-> "cm",
        weightPlaceholder |-> "Weight in kg", weightMin |-> "1.3",
        weightMax |-> "352", weightUnit |-> "kg"]
  ELSE [heightPlaceholder |-> "Height in inches", heightMin |-> "11.8",
        heightMax |-> "92.9", heightUnit |-> "inches",
        weightPlaceholder |-> "Weight in lbs", weightMin |-> "2.9",
        weightMax |-> "776", weightUnit |-> "lbs"]

\* FormDisplayUpdater.updateConversions
updateConversions(el) ==
  [el EXCEPT
     !.heightConversion =
        IF IsEmpty(el.height) THEN Empty
        ELSE IF el.metric
        THEN ConversionText(toFixed(cmToInches(el.height), 10), "inches")
        ELSE ConversionText(toFixed(inchesToCm(el.height), 10), "cm"),
     !.weightConversion =
        IF IsEmpty(el.weight) THEN Empty
        ELSE IF el.metric
        THEN ConversionText(toFixed(kgToLbs(el.weight), 10), "lbs")
        ELSE ConversionText(toFixed(lbsToKg(el.weight), 10), "kg")]

\* FormDisplayUpdater.updateUnits
updateUnits(el) ==
  LET isMetric == el.metric
      wasMetric == el.labels.heightUnit = "cm"
      currentHeight == parseFloatOr0(el.height)
      currentWeight == parseFloatOr0(el.weight)
      height ==
        IF isMetric /\ ~wasMetric /\ Gt(currentHeight, Num(0))
        THEN toFixed(inchesToCm(currentHeight), 10)
        ELSE IF ~isMetric /\ wasMetric /\ Gt(currentHeight, Num(0))
        THEN toFixed(cmToInches(currentHeight), 10)
        ELSE el.height
      weight ==
        IF isMetric /\ ~wasMetric /\ Gt(currentWeight, Num(0))
        THEN toFixed(lbsToKg(currentWeight), 10)
        ELSE IF ~isMetric /\ wasMetric /\ Gt(currentWeight, Num(0))
        THEN toFixed(kgToLbs(currentWeight), 10)
        ELSE el.weight
  IN  updateConversions([el EXCEPT !.labels = unitTexts(isMetric),
                                   !.height = height,
                                   !.weight = weight])

\* FormDisplayUpdater.updateAgeConversion
updateAgeConversion(el) ==
  [el EXCEPT
     !.ageConversion =
        IF ~IsEmpty(el.ageValue) /\ Truthy(el.ageValue) /\ el.ageUnit # "years"
        THEN ConversionText(toFixed(convertToYears(el.ageValue, el.ageUnit),
                                    1000), "years")
        ELSE Empty]

\* FormDisplayUpdater.handleAgeUnitChange; keep is the answer to confirm()
handleAgeUnitChange(el, keep) ==
  updateAgeConversion(
    IF ~IsEmpty(el.ageValue) /\ ~keep
    THEN [el EXCEPT !.ageValue = Empty]
    ELSE el)

\* UniversalFormController.updateUnitLabels
updateUnitLabels(el) ==
  [el EXCEPT !.labels =
     [unitTexts(el.metric) EXCEPT
        !.heightUnit = IF el.metric THEN "(cm)" ELSE "(in)",
        !.weightUnit = IF el.metric THEN "(kg)" ELSE "(lbs)"]]

\* UniversalFormController.updateHeightConversion
updateHeightConversion(el) ==
  [el EXCEPT
     !.heightConversion =
        IF IsEmpty(el.height) \/ ~Gt(el.height, Num(0)) THEN Empty
        ELSE IF el.metric
        THEN ConversionText(toFixed(cmToInches(el.height), 10), "inches")
        ELSE ConversionText(toFixed(inchesToCm(el.height), 10), "cm")]

\* UniversalFormController.updateWeightConversion
updateWeightConversion(el) ==
  [el EXCEPT
     !.weightConversion =
        IF IsEmpty(el.weight) \/ ~Gt(el.weight, Num(0)) THEN Empty
        ELSE IF el.metric
        THEN ConversionText(toFixed(kgToLbs(el.weight), 10), "lbs")
        ELSE ConversionText(toFixed(lbsToKg(el.weight), 10), "kg")]

\* UniversalFormController.updateAgeConversion
updateAgeConversionUniversal(el) ==
  [el EXCEPT
     !.ageConversion =
        IF /\ ~IsEmpty(el.ageValue)
           /\ Gt(el.ageValue, Num(0))
           /\ el.ageUnit # "years"
        THEN ConversionText(toFixed(convertToYears(el.ageValue, el.ageUnit),
                                    1000), "years")
        ELSE Empty]

\* UniversalFormController.updateAllConversions
updateAllConversions(el) ==
  updateAgeConversionUniversal(
    updateWeightConversion(updateHeightConversion(el)))

\* getCanonicalValues, of FormValueReader and of UniversalFormController,
\* with the measuredAAD field left empty
getCanonicalValues(el) ==
  LET heightValue == parseFloatOr0(el.height)
      weightValue == parseFloatOr0(el.weight)
      ageValue == parseFloatOr0(el.ageValue)
  IN  [height |-> IF el.metric THEN heightValue ELSE inchesToCm(heightValue),
       weight |-> IF el.metric THEN weightValue ELSE lbsToKg(weightValue),
       age |-> convertToYears(ageValue, el.ageUnit),
       sex |-> el.sex,
       measured |-> Num(0)]

\* hasRequiredValues
hasRequiredValues(el) ==
  LET values == getCanonicalValues(el)
  IN  /\ values.sex # ""
      /\ ~IsNaN(values.age) /\ Gt(values.age, Num(0))
      /\ ~IsNaN(values.height) /\ Gt(values.height, Num(0))
      /\ ~IsNaN(values.weight) /\ Gt(values.weight, Num(0))

\* what checkAndCalculateRealTime reads: window.getFormValues() and, for
\* the Z-score, the empty measuredAAD field itself
formValues(el) == [getCanonicalValues(el) EXCEPT !.measured = NaN]

\* the form as the controller's constructor leaves it: metric is checked,
\* the fields are empty or hold what the browser restored
Constructed(ctl, filled) ==
  LET fields == [metric |-> TRUE,
                 height |-> IF filled THEN Num(170) ELSE Empty,
                 weight |-> IF filled THEN Rat(413, 10) ELSE Empty,
                 ageValue |-> IF filled THEN Num(2) ELSE Empty,
                 ageUnit |-> "years",
                 sex |-> IF filled THEN "male" ELSE "",
                 labels |-> unitTexts(TRUE),
                 heightConversion |-> Empty,
                 weightConversion |-> Empty,
                 ageConversion |-> Empty]
  IN  IF ctl = "EnhancedFormController"
      THEN updateUnits(fields)
      ELSE updateUnitLabels(fields)

\* faulty variant: the pending timer is not cleared
debouncedCalculate_KeepsPending(pending, timeout, id) ==
  pending \cup {[id |-> id, age |-> 0]}

\* debouncedCalculate on the pending timers: clearTimeout(calculateTimeout),
\* then setTimeout, which returns id
debouncedCalculate(pending, timeout, id) ==
  {t \in pending : t.id # timeout} \cup {[id |-> id, age |-> 0]}

InitForm ==
  /\ controller \in Controllers
  /\ \E filled \in BOOLEAN : elements = Constructed(controller, filled)
  /\ entered = [height |-> elements.height, weight |-> elements.weight]
  /\ calculateTimeout = 0
  /\ timers = {}
  /\ clock = [quiet |-> Delay, triggered |-> 0, events |-> 0, burst |-> FALSE]
  /\ page = "calculator"
  /\ input = formValues(elements)
  /\ lookupData = LookupData(MaxAxisLen, MaxAxisLen, MaxAxisLen)
  /\ isLoaded = TRUE
  /\ loadPc = "done"
  /\ status = "ready"
  /\ errorMessage = NoError
  /\ ariaHidden = TRUE
  /\ currentPrediction = Null
  /\ zScoreValue = Dash
  /\ shown = [mean |-> Dash, sd |-> Dash, lower |-> Dash, upper |-> Dash]
  /\ outcome = [kind |-> "none"]
  /\ last = NoCall
  /\ search = NoSearch
  /\ calls = <<>>
  /\ NoWorker

\* a form event whose listeners leave the form as el and the typed values
\* as typed; hides tells whether the event is an input event of a number
\* input or of a select, to which the page's hideError listener answers
FormEvent(el, typed, hides) ==
  /\ clock.events < MaxEvents
  /\ elements' = el
  /\ entered' = typed
  /\ IF controller = "EnhancedFormController"
     THEN /\ timers' = debouncedCalculate(timers, calculateTimeout,
                                          clock.events + 1)
          /\ calculateTimeout' = clock.events + 1
          /\ clock' = [quiet |-> 0, triggered |-> 0,
                       events |-> clock.events + 1,
                       burst |-> \E t \in timers : t.id = calculateTimeout]
          /\ errorMessage' = IF hides THEN hideError(errorMessage)
                             ELSE errorMessage
     ELSE /\ clock' = [quiet |-> 0, triggered |-> 0,
                       events |-> clock.events + 1, burst |-> FALSE]
          /\ UNCHANGED <<timers, calculateTimeout, errorMessage>>
  /\ UNCHANGED <<controller, page, input, lookupData, isLoaded, loadPc,
                 status, ariaHidden, currentPrediction, zScoreValue, shown,
                 outcome, last, search, calls, worker>>

\* the user checks the other one of the metric and imperial radio buttons
UnitsToggle ==
  LET el == [elements EXCEPT !.metric = ~elements.metric]
  IN  FormEvent(IF controller = "EnhancedFormController"
                THEN updateUnits(el)
                ELSE updateAllConversions(updateUnitLabels(el)),
                entered, FALSE)

\* the user types into the height field
HeightInput ==
  \E v \in HeightEntries(elements.metric) :
    LET el == [elements EXCEPT !.height = v]
    IN  FormEvent(IF controller = "EnhancedFormController"
                  THEN updateConversions(el)
                  ELSE updateHeightConversion(el),
                  [entered EXCEPT !.height = v], TRUE)

\* the user types into the weight field
WeightInput ==
  \E v \in WeightEntries(elements.metric) :
    LET el == [elements EXCEPT !.weight = v]
    IN  FormEvent(IF controller = "EnhancedFormController"
                  THEN updateConversions(el)
                  ELSE updateWeightConversion(el),
                  [entered EXCEPT !.weight = v], TRUE)

\* the user types into the age field
AgeValueInput ==
  \E v \in AgeEntries :
    LET el == [elements EXCEPT !.ageValue = v]
    IN  FormEvent(IF controller = "EnhancedFormController"
                  THEN updateAgeConversion(el)
                  ELSE updateAgeConversionUniversal(el),
                  entered, TRUE)

\* the user picks another age unit
AgeUnitChange ==
  \E unit \in AgeUnits \ {elements.ageUnit} : \E keep \in BOOLEAN :
    LET el == [elements EXCEPT !.ageUnit = unit]
    IN  FormEvent(IF controller = "EnhancedFormController"
                  THEN handleAgeUnitChange(el, keep)
                  ELSE updateAgeConversionUniversal(el),
                  entered, TRUE)

\* the user picks another sex; only EnhancedFormController listens
SexChange ==
  \E sex \in SexEntries \ {elements.sex} :
    FormEvent([elements EXCEPT !.sex = sex], entered, TRUE)

\* time passes
Tick ==
  LET later(age) == IF age + TickMs >= Delay THEN Delay ELSE age + TickMs
  IN  /\ clock' = [clock EXCEPT !.quiet = later(@)]
      /\ timers' = {[t EXCEPT !.age = later(@)] : t \in timers}
      /\ UNCHANGED <<controller, elements, entered, calculateTimeout,
                     calculator, search, calls, worker>>

\* triggerCalculation; window.checkAndCalculateRealTime is the page's
\* function
triggerCalculation ==
  IF hasRequiredValues(elements)
  THEN /\ input' = formValues(elements)
       /\ checkAndCalculateRealTimeWith("checkAndCalculateRealTime",
                                        errorMessage, input')
       /\ UNCHANGED status
  ELSE UNCHANGED <<input, dom, outcome, last>>

\* a timer whose delay has passed leaves the pending timers
TimerDue ==
  \E t \in timers :
    /\ t.age >= Delay
    /\ timers' = timers \ {t}

\* a timer whose delay has passed runs its callback
TimerFires ==
  /\ TimerDue
  /\ clock' = [clock EXCEPT !.triggered = @ + 1]
  /\ triggerCalculation
  /\ UNCHANGED <<controller, elements, entered, calculateTimeout, page,
                 lookupData, isLoaded, loadPc, search, calls, worker>>

NextForm ==
  \/ UnitsToggle
  \/ HeightInput
  \/ WeightInput
  \/ AgeValueInput
  \/ AgeUnitChange
  \/ SexChange
  \/ Tick
  \/ TimerFires

\* time passes on, and the event loop runs the callback of a timer that is
\* due: the steps that take a due timer out of the pending ones are the
\* TimerFires steps
SpecForm ==
  InitForm /\ [][NextForm]_vars /\ WF_vars(Tick) /\ WF_timers(TimerDue)

-----------------------------------------------------------------------------
(* C22: toggling the unit system never changes the height and weight      *)
(* values.  Whatever events have happened, the height and weight fields    *)
(* hold what the user typed into them last (or what they held when the     *)
(* controller was constructed).                                            *)

C22_ValuesKept ==
  /\ elements.height = entered.height
  /\ elements.weight = entered.weight

-----------------------------------------------------------------------------
(* C27: debounce.  At most one calculation timer is pending; the timer     *)
(* callback runs at most once after the last form event, and only when     *)
(* 300 ms have passed since it; the calculation is invoked only with the   *)
(* required values present; and after the last event of a burst the        *)
(* callback does run, once.                                                *)

OnePending == Cardinality(timers) <= 1

AfterQuiet ==
  /\ clock.triggered <= 1
  /\ clock.triggered = 1 => clock.quiet >= Delay

\* a step in which the page's calculation ran
CalculationInvoked == last' # last \/ outcome' # outcome

OnlyWithValues == CalculationInvoked => hasRequiredValues(elements)

Settled_Form ==
  /\ timers = {}
  /\ (controller = "EnhancedFormController" /\ clock.events > 0)
       => clock.triggered = 1

C27_Debounce ==
  /\ [](OnePending /\ AfterQuiet)
  /\ [][OnlyWithValues]_vars
  /\ <>[]Settled_Form

\* a burst has ended: the last event cancelled a pending timer, and the one
\* callback that ran after it showed a prediction
C27_Witness ==
  /\ clock.burst
  /\ clock.events >= 2
  /\ clock.triggered = 1
  /\ timers = {}
  /\ last.blended
  /\ ~ariaHidden

=============================================================================
